---- MODULE Spec2Model ----
(***************************************************************************)
(* Candidate-job fit computation of the MrNoble backend: the Redis-backed  *)
(* result cache (app/services/cache.py) and the fit engine                 *)
(* (app/services/ai_service.py, app/services/match.py).                    *)
(*                                                                         *)
(* Numbers: the floats of the primary score are modelled as exact          *)
(* rationals [num, den] in lowest terms, those of the heuristic score as   *)
(* IEEE-754 doubles.  Texts and cache keys are sequences of one-character  *)
(* strings.  Cache values are records [kind, val] with val a sequence of   *)
(* integers (character codes, digits or vector components).                *)
(***************************************************************************)
EXTENDS Integers, Sequences, FiniteSets, TLC

VARIABLES
    connected,   \* CacheService.connected, fixed by the probe in __init__
    store,       \* the Redis keyspace: key -> [data, ttl] (ttl = seconds left)
    storeUp,     \* whether the Redis server currently answers
    recovered,   \* whether the Redis server has come back from an outage
    depUp,       \* whether the OpenAI dependency currently answers
    sleeps,      \* number of times the clock has advanced
    elapsed,     \* seconds that have passed since the last call returned
    last,        \* the last completed call: its arguments and what it returned
    reqs,        \* concurrent requests: where each one is and what it has seen
    db           \* the database rows the match endpoint reads and writes

vars ==
    <<connected, store, storeUp, recovered, depUp, sleeps, elapsed, last, reqs, db>>

----------------------------------------------------------------------------
(* Bounds *)

MaxSleeps == 2

\* cache operations one request makes
MaxOps == 2

----------------------------------------------------------------------------
(* Program constants *)

CACHE_TTL == 3600
EMBEDDING_TTL == 86400
SKILLS_TTL == 43200
MIN_SKILLS_TEXT == 50

----------------------------------------------------------------------------
(* Exact rational arithmetic standing for Python float arithmetic *)

Abs(n) == IF n < 0 THEN -n ELSE n

RECURSIVE Gcd(_, _)
Gcd(a, b) == IF b = 0 THEN a ELSE Gcd(b, a % b)

Rat(n, d) ==
    LET s == IF d < 0 THEN -1 ELSE 1
        g == Gcd(Abs(n), Abs(d))
    IN  [num |-> (s * n) \div g, den |-> (s * d) \div g]

RatAdd(a, b) == Rat(a.num * b.den + b.num * a.den, a.den * b.den)
RatSub(a, b) == Rat(a.num * b.den - b.num * a.den, a.den * b.den)
RatMul(a, b) == Rat(a.num * b.num, a.den * b.den)
RatGe(a, b) == a.num * b.den >= b.num * a.den
RatGt(a, b) == a.num * b.den > b.num * a.den
RatMax(a, b) == IF RatGe(a, b) THEN a ELSE b
RatMin(a, b) == IF RatGe(a, b) THEN b ELSE a

Zero == Rat(0, 1)
One == Rat(1, 1)

Clamp01(x) == RatMax(Zero, RatMin(One, x))

Max(a, b) == IF a >= b THEN a ELSE b

----------------------------------------------------------------------------
(* IEEE-754 double arithmetic, where the rounding of a float decides a     *)
(* comparison.  A magnitude is a multiple of 2^-57 written as five limbs   *)
(* of 15 bits, least significant first; a double is [neg, mag].  Every     *)
(* double of magnitude in [2^-5, 8) is such a multiple.                    *)

LIMB == 32768

\* the limbs of a number given as five non-negative parts that may exceed
\* a limb
Carry(p) ==
    LET t2 == p[2] + (p[1] \div LIMB)
        t3 == p[3] + (t2 \div LIMB)
        t4 == p[4] + (t3 \div LIMB)
        t5 == p[5] + (t4 \div LIMB)
    IN  <<p[1] % LIMB, t2 % LIMB, t3 % LIMB, t4 % LIMB, t5>>

MagAdd(a, b) == Carry([i \in 1..5 |-> a[i] + b[i]])

MagMul(a, k) == Carry([i \in 1..5 |-> a[i] * k])

MagLess(a, b) ==
    \E i \in 1..5 : a[i] < b[i] /\ \A j \in (i + 1)..5 : a[j] = b[j]

\* a - b for a >= b
MagSub(a, b) ==
    LET x1 == a[1] - b[1]
        x2 == a[2] - b[2] - (IF x1 < 0 THEN 1 ELSE 0)
        x3 == a[3] - b[3] - (IF x2 < 0 THEN 1 ELSE 0)
        x4 == a[4] - b[4] - (IF x3 < 0 THEN 1 ELSE 0)
        x5 == a[5] - b[5] - (IF x4 < 0 THEN 1 ELSE 0)
    IN  <<x1 % LIMB, x2 % LIMB, x3 % LIMB, x4 % LIMB, x5>>

MagZero == <<0, 0, 0, 0, 0>>

BitLength(x) == CHOOSE n \in 0..15 : x < 2^n /\ (n = 0 \/ x >= 2^(n - 1))

\* round to nearest, ties to even, to 53 significant bits: a magnitude
\* below 8 has more than 53 bits when its fourth limb has more than 8
RoundToDouble(a) ==
    IF a[4] < 256 THEN a
    ELSE LET q == 2^(BitLength(a[4]) - 8)
             rem == a[1] % q
             down == [a EXCEPT ![1] = a[1] - rem]
         IN  IF 2 * rem > q \/ (2 * rem = q /\ (a[1] \div q) % 2 = 1)
             THEN MagAdd(down, <<q, 0, 0, 0, 0>>)
             ELSE down

Double(mag) == [neg |-> FALSE, mag |-> mag]

\* the doubles of the literals 0.0, 0.05, 0.1, 0.5, 0.55, 0.70 and 1.0:
\* 0.05 = 0x1.999999999999ap-5, 0.1 = 0x1.999999999999ap-4,
\* 0.55 = 0x1.199999999999ap-1, 0.70 = 0x1.6666666666666p-1
Double_0_0 == Double(MagZero)
Double_0_05 == Double(<<6554, 13107, 26214, 204, 0>>)
Double_0_1 == Double(<<13108, 26214, 19660, 409, 0>>)
Double_0_5 == Double(<<0, 0, 0, 2048, 0>>)
Double_0_55 == Double(<<6560, 13107, 26214, 2252, 0>>)
Double_0_70 == Double(<<26208, 19660, 6553, 2867, 0>>)
Double_1_0 == Double(<<0, 0, 0, 4096, 0>>)

\* float * int for a non-negative float and a small non-negative int
DoubleMulInt(x, k) == Double(RoundToDouble(MagMul(x.mag, k)))

\* float + float and float - float for non-negative floats
DoubleAdd(x, y) == Double(RoundToDouble(MagAdd(x.mag, y.mag)))

DoubleSub(x, y) ==
    IF MagLess(x.mag, y.mag)
    THEN [neg |-> TRUE, mag |-> RoundToDouble(MagSub(y.mag, x.mag))]
    ELSE Double(RoundToDouble(MagSub(x.mag, y.mag)))

\* x < y
DoubleLess(x, y) ==
    IF x.neg /\ y.neg THEN MagLess(y.mag, x.mag)
    ELSE IF x.neg THEN x.mag # MagZero \/ y.mag # MagZero
    ELSE IF y.neg THEN FALSE
    ELSE MagLess(x.mag, y.mag)

DoubleGe(x, y) == ~DoubleLess(x, y)

\* Python's min(x, y) and max(x, y): y only when it is strictly smaller or
\* strictly larger
DoubleMin(x, y) == IF DoubleLess(y, x) THEN y ELSE x
DoubleMax(x, y) == IF DoubleLess(x, y) THEN y ELSE x

----------------------------------------------------------------------------
(* Texts: str.strip() and the content hash *)

RECURSIVE LStrip(_)
LStrip(t) == IF t # <<>> /\ Head(t) = " " THEN LStrip(Tail(t)) ELSE t

RECURSIVE RStrip(_)
RStrip(t) ==
    IF t # <<>> /\ t[Len(t)] = " " THEN RStrip(SubSeq(t, 1, Len(t) - 1)) ELSE t

Strip(t) == RStrip(LStrip(t))

\* hashlib.md5(...).hexdigest(): a digest of the characters of its argument.
\* Each character contributes its two hexadecimal digits, which keeps the
\* digest a function of the whole argument and distinct texts apart.
HexOf(c) ==
    CASE c = " " -> <<"2", "0">>
      [] c = "a" -> <<"6", "1">>
      [] c = "b" -> <<"6", "2">>
      [] c = "c" -> <<"6", "3">>
      [] c = "d" -> <<"6", "4">>
      [] c = "j" -> <<"6", "a">>
      [] OTHER   -> <<"3", "f">>

Md5Hex(t) == [i \in 1..(2 * Len(t)) |-> HexOf(t[(i + 1) \div 2])[2 - (i % 2)]]

----------------------------------------------------------------------------
(* CacheKeys *)

ai_embedding_Constant(text_hash) ==
    <<"a", "i", ":", "e", "m", "b", "e", "d", "d", "i", "n", "g", ":">>

ai_embedding(text_hash) ==
    <<"a", "i", ":", "e", "m", "b", "e", "d", "d", "i", "n", "g", ":">>
        \o text_hash

ai_skills(text_hash) ==
    <<"a", "i", ":", "s", "k", "i", "l", "l", "s", ":">> \o text_hash

----------------------------------------------------------------------------
(* Python values held by the cache *)

NoneVal == [kind |-> "NoneType", val |-> <<>>]
StrVal(codes) == [kind |-> "str", val |-> codes]
IntVal(n) == [kind |-> "int", val |-> <<n>>]
BoolVal(b) == [kind |-> "bool", val |-> <<IF b THEN 1 ELSE 0>>]
ListVal(items) == [kind |-> "list", val |-> items]

\* character codes used by the encodings
QUOTE == 34
BACKSLASH == 92
MINUS == 45
DIGIT0 == 48
PICKLE_PROTO == 128
PICKLE_VERSION == 4
PICKLE_NONE == 78
PICKLE_LIST == 93
PICKLE_STOP == 46

TrueText == <<116, 114, 117, 101>>
FalseText == <<102, 97, 108, 115, 101>>
NullText == <<110, 117, 108, 108>>

\* json.dumps of a str: quotes and backslashes are escaped
RECURSIVE JsonEscape(_)
JsonEscape(codes) ==
    IF codes = <<>> THEN <<>>
    ELSE (IF Head(codes) \in {QUOTE, BACKSLASH}
          THEN <<BACKSLASH, Head(codes)>> ELSE <<Head(codes)>>)
         \o JsonEscape(Tail(codes))

\* json.loads of the inside of a string literal: [ok, val]
RECURSIVE JsonUnescape(_)
JsonUnescape(codes) ==
    IF codes = <<>> THEN [ok |-> TRUE, val |-> <<>>]
    ELSE IF Head(codes) = QUOTE THEN [ok |-> FALSE, val |-> <<>>]
    ELSE IF Head(codes) = BACKSLASH
         THEN IF Len(codes) < 2 \/ codes[2] \notin {QUOTE, BACKSLASH}
              THEN [ok |-> FALSE, val |-> <<>>]
              ELSE LET r == JsonUnescape(SubSeq(codes, 3, Len(codes)))
                   IN  [ok |-> r.ok, val |-> <<codes[2]>> \o r.val]
    ELSE LET r == JsonUnescape(Tail(codes))
         IN  [ok |-> r.ok, val |-> <<Head(codes)>> \o r.val]

\* decimal digits of a natural number
RECURSIVE Digits(_)
Digits(n) ==
    IF n < 10 THEN <<DIGIT0 + n>> ELSE Digits(n \div 10) \o <<DIGIT0 + (n % 10)>>

IsDigits(codes) ==
    /\ codes # <<>>
    /\ \A i \in 1..Len(codes) : codes[i] \in DIGIT0..(DIGIT0 + 9)
    /\ Len(codes) > 1 => codes[1] # DIGIT0

RECURSIVE ParseNat(_)
ParseNat(codes) ==
    IF codes = <<>> THEN 0
    ELSE 10 * ParseNat(SubSeq(codes, 1, Len(codes) - 1))
         + (codes[Len(codes)] - DIGIT0)

JsonDumps(data) ==
    CASE data.kind = "str" -> <<QUOTE>> \o JsonEscape(data.val) \o <<QUOTE>>
      [] data.kind = "bool" -> IF data.val[1] = 1 THEN TrueText ELSE FalseText
      [] data.kind = "int" ->
            IF data.val[1] < 0 THEN <<MINUS>> \o Digits(-data.val[1])
            ELSE Digits(data.val[1])

\* json.loads: [ok, value]; ok = FALSE stands for JSONDecodeError
JsonLoads(text) ==
    LET bad == [ok |-> FALSE, value |-> NoneVal]
    IN  IF text = TrueText THEN [ok |-> TRUE, value |-> BoolVal(TRUE)]
        ELSE IF text = FalseText THEN [ok |-> TRUE, value |-> BoolVal(FALSE)]
        ELSE IF text = NullText THEN [ok |-> TRUE, value |-> NoneVal]
        ELSE IF Len(text) >= 2 /\ text[1] = QUOTE /\ text[Len(text)] = QUOTE
             THEN LET r == JsonUnescape(SubSeq(text, 2, Len(text) - 1))
                  IN  IF r.ok THEN [ok |-> TRUE, value |-> StrVal(r.val)] ELSE bad
        ELSE IF IsDigits(text)
             THEN [ok |-> TRUE, value |-> IntVal(ParseNat(text))]
        ELSE IF text # <<>> /\ text[1] = MINUS /\ IsDigits(Tail(text))
             THEN [ok |-> TRUE, value |-> IntVal(-ParseNat(Tail(text)))]
        ELSE bad

PickleDumps(data) ==
    <<PICKLE_PROTO, PICKLE_VERSION>>
        \o (IF data.kind = "NoneType" THEN <<PICKLE_NONE>>
            ELSE <<PICKLE_LIST>> \o data.val)
        \o <<PICKLE_STOP>>

\* pickle.loads: [ok, value]; ok = FALSE stands for UnpicklingError
PickleLoads(data) ==
    IF /\ Len(data) >= 4
       /\ data[1] = PICKLE_PROTO /\ data[2] = PICKLE_VERSION
       /\ data[Len(data)] = PICKLE_STOP
       /\ data[3] \in {PICKLE_NONE, PICKLE_LIST}
    THEN [ok |-> TRUE,
          value |-> IF data[3] = PICKLE_NONE THEN NoneVal
                    ELSE ListVal(SubSeq(data, 4, Len(data) - 1))]
    ELSE [ok |-> FALSE, value |-> NoneVal]

\* bytes.decode('utf-8') succeeds; 0x80 never starts a UTF-8 sequence
Utf8Decodes(data) == \A i \in 1..Len(data) : data[i] \in 0..127

_serialize(data) ==
    IF data.kind \in {"str", "int", "float", "bool"}
    THEN JsonDumps(data)
    ELSE PickleDumps(data)

_deserialize_JsonOnly(data) ==
    IF Utf8Decodes(data) /\ JsonLoads(data).ok
    THEN JsonLoads(data).value
    ELSE NoneVal

_deserialize_RawOnFailure(data) ==
    IF Utf8Decodes(data) /\ JsonLoads(data).ok
    THEN JsonLoads(data).value
    ELSE IF PickleLoads(data).ok THEN PickleLoads(data).value
    ELSE StrVal(data)

_deserialize(data) ==
    IF Utf8Decodes(data) /\ JsonLoads(data).ok
    THEN JsonLoads(data).value
    ELSE IF PickleLoads(data).ok THEN PickleLoads(data).value
    ELSE NoneVal

----------------------------------------------------------------------------
(* CacheService.  A cache c is [connected, up, store]; store maps a key to  *)
(* [data, ttl] with ttl the seconds the entry has left.                     *)

TheCache == [connected |-> connected, up |-> storeUp, store |-> store]

\* an optional ttl argument: <<>> is None, <<n>> is n
NoTtl == <<>>

\* redis GET: the bytes, or <<>> standing for nil together with found = FALSE
RedisGet(st, key) ==
    IF key \in DOMAIN st THEN [found |-> TRUE, data |-> st[key].data]
    ELSE [found |-> FALSE, data |-> <<>>]

\* redis SETEX: a non-positive expire time is rejected with an error
RedisSetexOk(seconds) == seconds > 0

\* SET ... NX: a key that is there keeps its value
RedisSetex_KeepExisting(st, key, seconds, data) ==
    [k \in DOMAIN st \cup {key} |->
        IF k = key /\ k \notin DOMAIN st
        THEN [data |-> data, ttl |-> seconds] ELSE st[k]]

RedisSetex(st, key, seconds, data) ==
    [k \in DOMAIN st \cup {key} |->
        IF k = key THEN [data |-> data, ttl |-> seconds] ELSE st[k]]

RedisDelete(st, keys) == [k \in DOMAIN st \ keys |-> st[k]]

\* CacheService.get
CacheGet_NoShortCircuit(c, key) ==
    IF ~c.up THEN NoneVal
    ELSE IF ~RedisGet(c.store, key).found THEN NoneVal
    ELSE _deserialize(RedisGet(c.store, key).data)

CacheGet(c, key) ==
    IF ~c.connected THEN NoneVal
    ELSE IF ~c.up THEN NoneVal
    ELSE IF ~RedisGet(c.store, key).found THEN NoneVal
    ELSE _deserialize(RedisGet(c.store, key).data)

\* the expiration CacheService.set hands to SETEX: ttl or settings.CACHE_TTL
EffectiveTtl(ttl) == IF ttl = NoTtl \/ ttl[1] = 0 THEN CACHE_TTL ELSE ttl[1]

\* CacheService.set: [ok, store]
CacheSet_NoReturn(c, key, value, ttl) ==
    IF ~c.connected THEN [ok |-> FALSE, store |-> c.store]
    ELSE IF ~c.up \/ ~RedisSetexOk(EffectiveTtl(ttl))
         THEN [ok |-> FALSE, store |-> c.store]
    ELSE [ok |-> FALSE,
          store |-> RedisSetex(c.store, key, EffectiveTtl(ttl), _serialize(value))]

CacheSet(c, key, value, ttl) ==
    IF ~c.connected THEN [ok |-> FALSE, store |-> c.store]
    ELSE IF ~c.up \/ ~RedisSetexOk(EffectiveTtl(ttl))
         THEN [ok |-> FALSE, store |-> c.store]
    ELSE [ok |-> TRUE,
          store |-> RedisSetex(c.store, key, EffectiveTtl(ttl), _serialize(value))]

\* CacheService.delete: [ok, store]
CacheDelete(c, key) ==
    IF ~c.connected \/ ~c.up THEN [ok |-> FALSE, store |-> c.store]
    ELSE [ok |-> key \in DOMAIN c.store, store |-> RedisDelete(c.store, {key})]

\* CacheService.exists
CacheExists(c, key) ==
    IF ~c.connected \/ ~c.up THEN FALSE ELSE key \in DOMAIN c.store

\* redis KEYS glob: "*" matches any run of characters, "?" any one character
RECURSIVE GlobMatch(_, _)
GlobMatch(p, k) ==
    IF p = <<>> THEN k = <<>>
    ELSE IF Head(p) = "*"
         THEN \E i \in 0..Len(k) : GlobMatch(Tail(p), SubSeq(k, i + 1, Len(k)))
    ELSE /\ k # <<>>
         /\ (Head(p) = "?" \/ Head(p) = Head(k))
         /\ GlobMatch(Tail(p), Tail(k))

RedisKeys(st, pattern) == {k \in DOMAIN st : GlobMatch(pattern, k)}

\* CacheService.clear_pattern: [count, store]
CacheClearPattern_FirstKeyOnly(c, pattern) ==
    IF ~c.connected \/ ~c.up \/ RedisKeys(c.store, pattern) = {}
    THEN [count |-> 0, store |-> c.store]
    ELSE [count |-> 1,
          store |-> RedisDelete(c.store,
                                {CHOOSE k \in RedisKeys(c.store, pattern) : TRUE})]

CacheClearPattern(c, pattern) ==
    IF ~c.connected \/ ~c.up THEN [count |-> 0, store |-> c.store]
    ELSE [count |-> Cardinality(RedisKeys(c.store, pattern)),
          store |-> RedisDelete(c.store, RedisKeys(c.store, pattern))]

----------------------------------------------------------------------------
(* AIService *)

\* openai.Embedding.acreate: the vector the provider returns for a text
OpenAIEmbedding(text) ==
    CASE text = <<"j">> -> <<10, 0, 0, 0, 0>>
      [] text = <<"a">> -> <<9, 3, 3, 1, 0>>
      [] text = <<"b">> -> <<-6, 8, 0, 0, 0>>
      [] text = <<"c">> -> <<1, 3, 2, 1, 1>>
      [] text = <<"d">> -> <<7, 5, 5, 1, 0>>
      [] OTHER          -> <<0, 0, 0, 0, 0>>

\* AIService.get_embedding: [ret, store, calls, errors]
GetEmbedding_CacheOnError(c, up, text) ==
    IF text = <<>> \/ Strip(text) = <<>>
    THEN [ret |-> NoneVal, store |-> c.store, calls |-> 0, errors |-> 0]
    ELSE LET cache_key == ai_embedding(Md5Hex(Strip(text)))
             cached_embedding == CacheGet(c, cache_key)
             embedding == ListVal(OpenAIEmbedding(Strip(text)))
         IN  IF cached_embedding # NoneVal
             THEN [ret |-> cached_embedding, store |-> c.store,
                   calls |-> 0, errors |-> 0]
             ELSE IF ~up
             THEN [ret |-> NoneVal,
                   store |-> CacheSet(c, cache_key, ListVal(<<>>), <<EMBEDDING_TTL>>).store,
                   calls |-> 1, errors |-> 1]
             ELSE [ret |-> embedding,
                   store |-> CacheSet(c, cache_key, embedding, <<EMBEDDING_TTL>>).store,
                   calls |-> 1, errors |-> 0]

GetEmbedding(c, up, text) ==
    IF text = <<>> \/ Strip(text) = <<>>
    THEN [ret |-> NoneVal, store |-> c.store, calls |-> 0, errors |-> 0]
    ELSE LET cache_key == ai_embedding(Md5Hex(Strip(text)))
             cached_embedding == CacheGet(c, cache_key)
             embedding == ListVal(OpenAIEmbedding(Strip(text)))
         IN  IF cached_embedding # NoneVal
             THEN [ret |-> cached_embedding, store |-> c.store,
                   calls |-> 0, errors |-> 0]
             ELSE IF ~up
             THEN [ret |-> NoneVal, store |-> c.store, calls |-> 1, errors |-> 1]
             ELSE [ret |-> embedding,
                   store |-> CacheSet(c, cache_key, embedding, <<EMBEDDING_TTL>>).store,
                   calls |-> 1, errors |-> 0]

RECURSIVE Dot(_, _)
Dot(a, b) ==
    IF a = <<>> THEN 0 ELSE Head(a) * Head(b) + Dot(Tail(a), Tail(b))

\* the Euclidean norm; the vectors of OpenAIEmbedding have integral norms
Norm(a) == LET n == Dot(a, a) IN CHOOSE r \in 0..n : r * r = n

\* sklearn cosine_similarity: a zero vector is left unnormalised, giving 0
CosineSimilarity(a, b) ==
    IF Norm(a) = 0 \/ Norm(b) = 0 THEN Zero ELSE Rat(Dot(a, b), Norm(a) * Norm(b))

\* Python truthiness of an Optional[List[float]]
Truthy(v) == v.kind # "NoneType" /\ v.val # <<>>

\* what openai.ChatCompletion.acreate answers: the form of the content and
\* its items.  An item is the number of a skill name, 0 for a blank string
\* and a negative number for a JSON value that is not a string.
PYTHON == 1
SQL == 2

Repeat(ch, n) == [i \in 1..n |-> ch]

OpenAIChat(text) ==
    CASE text = Repeat("a", MIN_SKILLS_TEXT) ->
            [form |-> "array", items |-> <<PYTHON, 0, -7, SQL>>]
      [] text = <<" ">> \o Repeat("a", MIN_SKILLS_TEXT) ->
            [form |-> "text", items |-> <<SQL, 0, PYTHON>>]
      [] text = Repeat("b", MIN_SKILLS_TEXT) ->
            [form |-> "array", items |-> <<>>]
      [] OTHER -> [form |-> "object", items |-> <<>>]

\* the parsing of the content: a JSON array keeps its non-blank strings, any
\* other JSON value gives no skill, and text that is not JSON is split at
\* the commas and keeps its non-blank pieces
IsSkillName(item) == item > 0
IsNotBlank(item) == item # 0

ParseSkills(content) ==
    CASE content.form = "array" -> SelectSeq(content.items, IsSkillName)
      [] content.form = "text" -> SelectSeq(content.items, IsNotBlank)
      [] OTHER -> <<>>

\* AIService.extract_skills_from_text: [ret, store, calls, errors]
ExtractSkills_TruthyCache(c, up, text) ==
    IF text = <<>> \/ Len(Strip(text)) < MIN_SKILLS_TEXT
    THEN [ret |-> ListVal(<<>>), store |-> c.store, calls |-> 0, errors |-> 0]
    ELSE LET cache_key == ai_skills(Md5Hex(Strip(text)))
             cached_skills == CacheGet(c, cache_key)
             result == ListVal(ParseSkills(OpenAIChat(text)))
         IN  IF Truthy(cached_skills)
             THEN [ret |-> cached_skills, store |-> c.store,
                   calls |-> 0, errors |-> 0]
             ELSE IF ~up
             THEN [ret |-> ListVal(<<>>), store |-> c.store,
                   calls |-> 1, errors |-> 1]
             ELSE [ret |-> result,
                   store |-> CacheSet(c, cache_key, result, <<SKILLS_TTL>>).store,
                   calls |-> 1, errors |-> 0]

ExtractSkills(c, up, text) ==
    IF text = <<>> \/ Len(Strip(text)) < MIN_SKILLS_TEXT
    THEN [ret |-> ListVal(<<>>), store |-> c.store, calls |-> 0, errors |-> 0]
    ELSE LET cache_key == ai_skills(Md5Hex(Strip(text)))
             cached_skills == CacheGet(c, cache_key)
             result == ListVal(ParseSkills(OpenAIChat(text)))
         IN  IF cached_skills # NoneVal
             THEN [ret |-> cached_skills, store |-> c.store,
                   calls |-> 0, errors |-> 0]
             ELSE IF ~up
             THEN [ret |-> ListVal(<<>>), store |-> c.store,
                   calls |-> 1, errors |-> 1]
             ELSE [ret |-> result,
                   store |-> CacheSet(c, cache_key, result, <<SKILLS_TTL>>).store,
                   calls |-> 1, errors |-> 0]

\* AIService.calculate_similarity
calculate_similarity(embedding1, embedding2) ==
    IF ~Truthy(embedding1) \/ ~Truthy(embedding2) THEN Zero
    ELSE IF Len(embedding1.val) # Len(embedding2.val) THEN Zero
    ELSE CosineSimilarity(embedding1.val, embedding2.val)

Reason_NoSkills(text, skills) == [text |-> text, skills |-> {}]

Reason(text, skills) == [text |-> text, skills |-> skills]

\* the status ladder of compute_match_score
DetermineStatus_ScoreFirst(must_have_missing, final_score) ==
    IF RatGe(final_score, Rat(75, 100)) THEN "FIT"
    ELSE IF RatGe(final_score, Rat(5, 10)) THEN "BORDERLINE"
    ELSE "NOT_FIT"

DetermineStatus_HeuristicThresholds(must_have_missing, final_score) ==
    IF must_have_missing # {} THEN "NOT_FIT"
    ELSE IF RatGe(final_score, Rat(70, 100)) THEN "FIT"
    ELSE IF RatGe(final_score, Rat(55, 100)) THEN "BORDERLINE"
    ELSE "NOT_FIT"

DetermineStatus(must_have_missing, final_score) ==
    IF must_have_missing # {} THEN "NOT_FIT"
    ELSE IF RatGe(final_score, Rat(75, 100)) THEN "FIT"
    ELSE IF RatGe(final_score, Rat(5, 10)) THEN "BORDERLINE"
    ELSE "NOT_FIT"

\* the result of the except branch of compute_match_score
ErrorResult(st, calls, errors) ==
    [raised |-> FALSE, score |-> Zero, status |-> "NOT_FIT",
     reasons |-> <<Reason("Error in matching process", {})>>,
     semantic |-> Zero, store |-> st, calls |-> calls, errors |-> errors]

\* AIService.compute_match_score.  job_requirements is
\* [wellformed, must_have, nice_to_have]; wellformed = FALSE stands for a
\* requirements object whose skill lists cannot be turned into sets.
compute_match_score(c, up, job_description, job_requirements, resume_text, resume_skills) ==
    LET j == GetEmbedding(c, up, job_description)
        r == GetEmbedding([c EXCEPT !.store = j.store], up, resume_text)
        semantic_score ==
            IF Truthy(j.ret) /\ Truthy(r.ret)
            THEN calculate_similarity(j.ret, r.ret) ELSE Zero
        must_have_skills == job_requirements.must_have
        nice_to_have_skills == job_requirements.nice_to_have
        must_have_matches == must_have_skills \cap resume_skills
        must_have_missing == must_have_skills \ resume_skills
        nice_to_have_matches == nice_to_have_skills \cap resume_skills
        must_have_score ==
            Rat(Cardinality(must_have_matches), Max(Cardinality(must_have_skills), 1))
        nice_to_have_score ==
            RatMul(Rat(Cardinality(nice_to_have_matches),
                       Max(Cardinality(nice_to_have_skills), 1)), Rat(3, 10))
        skill_score == RatAdd(must_have_score, nice_to_have_score)
        final_score ==
            RatAdd(RatMul(semantic_score, Rat(4, 10)), RatMul(skill_score, Rat(6, 10)))
        reasons ==
            (IF must_have_matches # {}
             THEN <<Reason("Matched must-have skills", must_have_matches)>> ELSE <<>>)
            \o (IF must_have_missing # {}
                THEN <<Reason("Missing must-have skills", must_have_missing)>> ELSE <<>>)
            \o (IF nice_to_have_matches # {}
                THEN <<Reason("Bonus skills", nice_to_have_matches)>> ELSE <<>>)
            \o (IF RatGt(semantic_score, Rat(7, 10))
                THEN <<Reason("High semantic similarity to job description", {})>>
                ELSE <<>>)
    IN  IF ~job_requirements.wellformed
        THEN ErrorResult(r.store, j.calls + r.calls, j.errors + r.errors)
        ELSE [raised |-> FALSE, score |-> final_score,
              status |-> DetermineStatus(must_have_missing, final_score),
              reasons |-> reasons, semantic |-> semantic_score, store |-> r.store,
              calls |-> j.calls + r.calls, errors |-> j.errors + r.errors]

----------------------------------------------------------------------------
(* app/services/match.py *)

\* what a raised exception leaves of a result
Raised(st) ==
    [raised |-> TRUE, score |-> Zero, status |-> "raised", reasons |-> <<>>,
     semantic |-> Zero, store |-> st, calls |-> 0, errors |-> 0]

\* compute_fit_score_fallback.  resume_json is [shape, skills]: shape "dict"
\* for {"skills": [...]}, shape "list" for a bare list of skills, which has
\* no .get.  The score is a double.
compute_fit_score_fallback(st, jd_json, resume_json) ==
    LET jd_must == jd_json.must_have
        res_skills == resume_json.skills
        skills_overlap == Cardinality(jd_must \cap res_skills)
        must_miss == jd_must \ res_skills
        base == DoubleSub(DoubleAdd(Double_0_5, DoubleMulInt(Double_0_1, skills_overlap)),
                          DoubleMulInt(Double_0_05, Cardinality(must_miss)))
        score == DoubleMax(Double_0_0, DoubleMin(Double_1_0, base))
        status == IF DoubleGe(score, Double_0_70) THEN "FIT"
                  ELSE IF DoubleGe(score, Double_0_55) THEN "BORDERLINE"
                  ELSE "NOT_FIT"
        reasons ==
            << IF jd_must \cap res_skills # {}
               THEN Reason("Matched skills", jd_must \cap res_skills)
               ELSE Reason("No overlaps", {}),
               IF must_miss # {}
               THEN Reason("Missing must-haves", must_miss)
               ELSE Reason("All must-haves present", {}) >>
    IN  IF ~jd_json.wellformed \/ resume_json.shape # "dict"
        THEN Raised(st)
        ELSE [raised |-> FALSE, score |-> score, status |-> status,
              reasons |-> reasons, semantic |-> Zero, store |-> st,
              calls |-> 0, errors |-> 0]

\* compute_fit_score_async: the fallback is handed the bare skill list
compute_fit_score_async(c, up, job_description, job_requirements, resume_text, resume_skills) ==
    LET r == compute_match_score(c, up, job_description, job_requirements,
                                 resume_text, resume_skills)
    IN  IF r.raised
        THEN compute_fit_score_fallback(r.store, job_requirements,
                                        [shape |-> "list", skills |-> resume_skills])
        ELSE r

\* compute_fit_score: loop is the state of asyncio's event loop, "running",
\* "idle" or "none" (get_event_loop raises)
compute_fit_score(c, up, loop, jd_json, resume_json) ==
    IF loop = "idle" /\ resume_json.shape = "dict"
    THEN compute_fit_score_async(c, up, <<>>, jd_json, <<>>, resume_json.skills)
    ELSE compute_fit_score_fallback(c.store, jd_json, resume_json)

----------------------------------------------------------------------------
(* Inputs of the fit engine *)

JobTexts == {<<>>, <<"j">>, <<" ", "j">>}
ResumeTexts == {<<" ">>, <<"a">>, <<"b">>, <<"j">>}

Skills == {"Python", "SQL", "Docker"}

JobRequirements ==
    [wellformed : {TRUE},
     must_have : {{}, {"Python"}, {"Python", "SQL"}},
     nice_to_have : {{}, {"Docker"}}]
    \cup {[wellformed |-> FALSE, must_have |-> {}, nice_to_have |-> {}]}

ResumeSkills == SUBSET Skills

\* arguments of the heuristic scorer and of the synchronous wrapper
JdJsons ==
    {[wellformed |-> TRUE, must_have |-> {}, nice_to_have |-> {}],
     [wellformed |-> TRUE, must_have |-> {"Python", "SQL"}, nice_to_have |-> {"Docker"}],
     [wellformed |-> FALSE, must_have |-> {}, nice_to_have |-> {}]}

ResumeJsons ==
    [shape : {"dict", "list"}, skills : {{}, {"Python"}, {"Python", "SQL"}}]

Loops == {"running", "idle", "none"}

\* what a caller sees of a result
Outcome(r) ==
    [raised |-> r.raised, score |-> r.score, status |-> r.status,
     reasons |-> r.reasons, semantic |-> r.semantic,
     calls |-> r.calls, errors |-> r.errors]

----------------------------------------------------------------------------
(* State machine *)

EmptyStore == [k \in {} |-> [data |-> <<>>, ttl |-> 0]]

\* no call is in progress and no result is waiting to be taken
Idle == [op |-> "idle"]

\* the requests served at the same time (sync endpoints run on a thread pool)
Requests == {1, 2}

\* a request between two cache operations, having made none yet
NoRequests == [r \in Requests |-> [pc |-> "idle", pattern |-> <<>>, keys |-> {}, hist |-> <<>>]]

\* a database without jobs, candidates and applications
NoRows == [jobs |-> <<>>, candidates |-> <<>>, applications |-> <<>>]

\* CacheService.__init__: one ping decides connected
Init ==
    /\ connected \in BOOLEAN
    /\ storeUp = connected
    /\ recovered = FALSE
    /\ store = EmptyStore
    /\ depUp \in BOOLEAN
    /\ sleeps = 0
    /\ elapsed = 0
    /\ last = Idle
    /\ reqs = NoRequests
    /\ db = NoRows

\* a match request: routers/match.py awaits compute_fit_score_async
ComputeFitScoreAsync(jd, rq, cv, sk) ==
    /\ last = Idle
    /\ \E r \in {compute_fit_score_async(TheCache, depUp, jd, rq, cv, sk)} :
        /\ store' = r.store
        /\ last' = [op |-> "compute_fit_score_async", jd |-> jd, rq |-> rq,
                    cv |-> cv, skills |-> sk, res |-> Outcome(r)]
        /\ UNCHANGED <<db, reqs, recovered, connected, storeUp, depUp, sleeps, elapsed>>

\* a direct call of the synchronous wrapper
ComputeFitScore(loop, jd_json, resume_json) ==
    /\ last = Idle
    /\ \E r \in {compute_fit_score(TheCache, depUp, loop, jd_json, resume_json)} :
        /\ store' = r.store
        /\ last' = [op |-> "compute_fit_score", loop |-> loop, rq |-> jd_json,
                    resume |-> resume_json, res |-> Outcome(r)]
        /\ UNCHANGED <<db, reqs, recovered, connected, storeUp, depUp, sleeps, elapsed>>

\* a call of the fallback scorer
ComputeFitScoreFallback(jd_json, resume_json) ==
    /\ last = Idle
    /\ \E r \in {compute_fit_score_fallback(store, jd_json, resume_json)} :
        /\ last' = [op |-> "compute_fit_score_fallback", rq |-> jd_json,
                    resume |-> resume_json, res |-> Outcome(r)]
        /\ UNCHANGED <<db, reqs, recovered, connected, store, storeUp, depUp, sleeps, elapsed>>

\* routers/cache.py clear_cache: 503 unless connected, else clear_pattern("*")
ClearCache ==
    /\ last = Idle
    /\ connected
    /\ store' = CacheClearPattern(TheCache, <<"*">>).store
    /\ last' = [op |-> "clear_cache",
                count |-> CacheClearPattern(TheCache, <<"*">>).count]
    /\ UNCHANGED <<db, reqs, recovered, connected, storeUp, depUp, sleeps, elapsed>>

\* the environment: the provider and the Redis server fail and recover
DependencyOutage ==
    /\ last = Idle
    /\ depUp
    /\ depUp' = FALSE
    /\ UNCHANGED <<db, reqs, recovered, connected, store, storeUp, sleeps, elapsed, last>>

DependencyRecovery ==
    /\ last = Idle
    /\ ~depUp
    /\ depUp' = TRUE
    /\ UNCHANGED <<db, reqs, recovered, connected, store, storeUp, sleeps, elapsed, last>>

StoreOutage ==
    /\ last = Idle
    /\ storeUp
    /\ storeUp' = FALSE
    /\ UNCHANGED <<db, reqs, recovered, connected, store, depUp, sleeps, elapsed, last>>

StoreRecovery ==
    /\ last = Idle
    /\ ~storeUp
    /\ storeUp' = TRUE
    /\ recovered' = TRUE
    /\ UNCHANGED <<db, reqs, connected, store, depUp, sleeps, elapsed, last>>

\* d seconds pass: Redis drops the entries whose time is up
Expire(st, d) ==
    [k \in {x \in DOMAIN st : st[x].ttl > d} |-> [st[k] EXCEPT !.ttl = @ - d]]

Sleep(d) ==
    /\ sleeps < MaxSleeps
    /\ sleeps' = sleeps + 1
    /\ store' = Expire(store, d)
    /\ elapsed' = IF last = Idle THEN 0 ELSE elapsed + d
    /\ UNCHANGED <<db, reqs, recovered, connected, storeUp, depUp, last>>

\* the caller takes the result
Return ==
    /\ last # Idle
    /\ last' = Idle
    /\ elapsed' = 0
    /\ UNCHANGED <<db, reqs, recovered, connected, store, storeUp, depUp, sleeps>>

FitCalls ==
    \/ \E jd \in JobTexts, rq \in JobRequirements, cv \in ResumeTexts,
          sk \in ResumeSkills : ComputeFitScoreAsync(jd, rq, cv, sk)
    \/ \E loop \in Loops, rq \in JdJsons, rj \in ResumeJsons :
          ComputeFitScore(loop, rq, rj)
    \/ \E rq \in JdJsons, rj \in ResumeJsons :
          ComputeFitScoreFallback(rq, rj)

FitEnvironment ==
    \/ ClearCache
    \/ StoreOutage
    \/ StoreRecovery
    \/ last = Idle /\ Sleep(EMBEDDING_TTL)

Next ==
    \/ FitCalls
    \/ FitEnvironment
    \/ DependencyOutage
    \/ DependencyRecovery
    \/ Return

Spec == Init /\ [][Next]_vars

\* the same engine in front of a provider that always answers
InitDet == Init /\ depUp

NextDet ==
    \/ FitCalls
    \/ FitEnvironment
    \/ Return

SpecDet == InitDet /\ [][NextDet]_vars

\* match requests for resumes whose similarity to the job lies on and
\* around the thresholds: 0 (blank), 0.25, 0.7 and 0.9
ScoreTexts == {<<" ">>, <<"a">>, <<"c">>, <<"d">>}

\* requirements handed to the wrapper and to the heuristic: those above
\* and a job with three must-have skills
ScoreJdJsons ==
    JdJsons \cup {[wellformed |-> TRUE, must_have |-> {"Python", "SQL", "Docker"},
                   nice_to_have |-> {}]}

NextScore ==
    \/ \E rq \in JobRequirements, cv \in ScoreTexts, sk \in ResumeSkills :
          ComputeFitScoreAsync(<<"j">>, rq, cv, sk)
    \/ \E loop \in Loops, rq \in ScoreJdJsons, rj \in ResumeJsons :
          ComputeFitScore(loop, rq, rj)
    \/ \E rq \in ScoreJdJsons, rj \in ResumeJsons :
          ComputeFitScoreFallback(rq, rj)
    \/ StoreOutage
    \/ StoreRecovery
    \/ DependencyOutage
    \/ DependencyRecovery
    \/ Return

SpecScore == Init /\ [][NextScore]_vars

----------------------------------------------------------------------------
(* Direct use of the cache *)

DigitChar(d) ==
    CASE d = 0 -> "0" [] d = 1 -> "1" [] d = 2 -> "2" [] d = 3 -> "3"
      [] d = 4 -> "4" [] d = 5 -> "5" [] d = 6 -> "6" [] d = 7 -> "7"
      [] d = 8 -> "8" [] d = 9 -> "9"

\* str(n) of a natural number
RECURSIVE StrOfNat(_)
StrOfNat(n) ==
    IF n < 10 THEN <<DigitChar(n)>>
    ELSE StrOfNat(n \div 10) \o <<DigitChar(n % 10)>>

\* CacheKeys.job, CacheKeys.dashboard_stats
job(job_id) == <<"j", "o", "b", ":">> \o StrOfNat(job_id)

dashboard_stats ==
    <<"d", "a", "s", "h", "b", "o", "a", "r", "d", ":", "s", "t", "a", "t", "s">>

CacheKeyChoices == {job(1), dashboard_stats}

CacheValues ==
    {NoneVal, StrVal(<<>>), StrVal(<<DIGIT0 + 1>>), StrVal(<<QUOTE, BACKSLASH>>),
     IntVal(1), IntVal(-12), BoolVal(TRUE), ListVal(<<>>), ListVal(<<1, 2>>)}

TtlChoices == {NoTtl, <<0>>, <<1>>, <<2>>, <<-1>>}

\* what one call of a producer does: return a value or raise
Returns(v) == [raises |-> FALSE, value |-> v]
Raises == [raises |-> TRUE, value |-> NoneVal]

\* a producer is the sequence of what its successive calls do
Producers ==
    {<<Returns(v)>> : v \in {NoneVal, IntVal(1), ListVal(<<1, 2>>)}}
    \cup {<<Raises, Raises>>, <<Raises, Returns(IntVal(1))>>}

\* CacheService.get_or_set: [raised, ret, calls, store]
CacheGetOrSet(c, key, func, ttl) ==
    LET cached_value == CacheGet(c, key)
    IN  IF cached_value # NoneVal
        THEN [raised |-> FALSE, ret |-> cached_value, calls |-> 0, store |-> c.store]
        ELSE IF ~func[1].raises
        THEN [raised |-> FALSE, ret |-> func[1].value, calls |-> 1,
              store |-> CacheSet(c, key, func[1].value, ttl).store]
        ELSE [raised |-> func[2].raises, ret |-> func[2].value, calls |-> 2,
              store |-> c.store]

Set(key, value, ttl) ==
    /\ last = Idle
    /\ store' = CacheSet(TheCache, key, value, ttl).store
    /\ last' = [op |-> "set", key |-> key, value |-> value, ttl |-> ttl,
                ok |-> CacheSet(TheCache, key, value, ttl).ok,
                wrote |-> CacheSet(TheCache, key, value, ttl).store # store]
    /\ UNCHANGED <<db, reqs, recovered, connected, storeUp, depUp, sleeps, elapsed>>

Get_DisconnectOnError(key) ==
    /\ last = Idle
    /\ last' = [op |-> "get", key |-> key, ret |-> CacheGet(TheCache, key),
                stored |-> RedisGet(store, key)]
    /\ connected' = (connected /\ storeUp)
    /\ UNCHANGED <<db, reqs, recovered, store, storeUp, depUp, sleeps, elapsed>>

Get(key) ==
    /\ last = Idle
    /\ last' = [op |-> "get", key |-> key, ret |-> CacheGet(TheCache, key),
                stored |-> RedisGet(store, key)]
    /\ UNCHANGED <<db, reqs, recovered, connected, store, storeUp, depUp, sleeps, elapsed>>

Delete(key) ==
    /\ last = Idle
    /\ store' = CacheDelete(TheCache, key).store
    /\ last' = [op |-> "delete", key |-> key, ok |-> CacheDelete(TheCache, key).ok,
                wrote |-> CacheDelete(TheCache, key).store # store]
    /\ UNCHANGED <<db, reqs, recovered, connected, storeUp, depUp, sleeps, elapsed>>

Exists(key) ==
    /\ last = Idle
    /\ last' = [op |-> "exists", key |-> key, ret |-> CacheExists(TheCache, key),
                stored |-> RedisGet(store, key)]
    /\ UNCHANGED <<db, reqs, recovered, connected, store, storeUp, depUp, sleeps, elapsed>>

ClearPattern(pattern) ==
    /\ last = Idle
    /\ \E r \in {CacheClearPattern(TheCache, pattern)} :
        /\ store' = r.store
        /\ last' = [op |-> "clear_pattern", pattern |-> pattern,
                    before |-> store, count |-> r.count,
                    wrote |-> r.store # store]
        /\ UNCHANGED <<db, reqs, recovered, connected, storeUp, depUp, sleeps, elapsed>>

GetOrSet(key, func, ttl) ==
    /\ last = Idle
    /\ \E r \in {CacheGetOrSet(TheCache, key, func, ttl)} :
        /\ store' = r.store
        /\ last' = [op |-> "get_or_set", key |-> key, func |-> func, ttl |-> ttl,
                    cached |-> CacheGet(TheCache, key),
                    raised |-> r.raised, ret |-> r.ret, calls |-> r.calls,
                    wrote |-> r.store # store]
        /\ UNCHANGED <<db, reqs, recovered, connected, storeUp, depUp, sleeps, elapsed>>

\* what an earlier process left in Redis: a payload that is neither JSON
\* text nor a pickle, and the JSON text of 1
PriorStore ==
    [k \in CacheKeyChoices |->
        [data |-> IF k = job(1) THEN <<PICKLE_PROTO>> ELSE <<DIGIT0 + 1>>,
         ttl |-> CACHE_TTL]]

InitCache ==
    /\ connected \in BOOLEAN
    /\ storeUp = connected
    /\ recovered = FALSE
    /\ store \in {EmptyStore, PriorStore}
    /\ depUp = TRUE
    /\ sleeps = 0
    /\ elapsed = 0
    /\ last = Idle
    /\ reqs = NoRequests
    /\ db = NoRows

NextCache ==
    \/ \E k \in CacheKeyChoices, v \in CacheValues, t \in TtlChoices : Set(k, v, t)
    \/ \E k \in CacheKeyChoices : Get(k)
    \/ \E k \in CacheKeyChoices : Delete(k)
    \/ \E k \in CacheKeyChoices, f \in Producers, t \in {NoTtl, <<1>>} :
          GetOrSet(k, f, t)
    \/ \E k \in CacheKeyChoices : Exists(k)
    \/ ClearPattern(<<"*">>)
    \/ StoreOutage
    \/ StoreRecovery
    \/ \E d \in {1, CACHE_TTL} : Sleep(d)
    \/ Return

SpecCache == InitCache /\ [][NextCache]_vars

----------------------------------------------------------------------------
(* Pattern invalidation *)

\* CacheKeys.candidate, CacheKeys.recent_activity
candidate(candidate_id) ==
    <<"c", "a", "n", "d", "i", "d", "a", "t", "e", ":">> \o StrOfNat(candidate_id)

recent_activity ==
    <<"d", "a", "s", "h", "b", "o", "a", "r", "d", ":",
      "r", "e", "c", "e", "n", "t", "_", "a", "c", "t", "i", "v", "i", "t", "y">>

\* the entity type names the routers pass to invalidate_related
JobType == <<"j", "o", "b">>
CandidateType == <<"c", "a", "n", "d", "i", "d", "a", "t", "e">>
DashboardName == <<"d", "a", "s", "h", "b", "o", "a", "r", "d">>
StatsName == <<"s", "t", "a", "t", "s">>

\* f"*{name}*"
Around(name) == <<"*">> \o name \o <<"*">>

\* an optional entity id: <<>> is None, <<n>> is n
NoId == <<>>

\* the patterns of invalidate_related, the None entry left out
InvalidatePatterns_NoDashboard(entity_type, entity_id) ==
    <<Around(entity_type)>>
    \o (IF entity_id # NoId /\ entity_id[1] # 0
        THEN <<Around(entity_type \o <<":">> \o StrOfNat(entity_id[1]))>>
        ELSE <<>>)
    \o <<Around(StatsName)>>

InvalidatePatterns_IdOnly(entity_type, entity_id) ==
    (IF entity_id # NoId /\ entity_id[1] # 0
     THEN <<Around(entity_type \o <<":">> \o StrOfNat(entity_id[1]))>>
     ELSE <<Around(entity_type)>>)
    \o <<Around(DashboardName), Around(StatsName)>>

InvalidatePatterns(entity_type, entity_id) ==
    <<Around(entity_type)>>
    \o (IF entity_id # NoId /\ entity_id[1] # 0
        THEN <<Around(entity_type \o <<":">> \o StrOfNat(entity_id[1]))>>
        ELSE <<>>)
    \o <<Around(DashboardName), Around(StatsName)>>

\* the loop of invalidate_related: one clear_pattern per pattern
RECURSIVE ClearPatterns(_, _)
ClearPatterns(c, patterns) ==
    IF patterns = <<>> THEN c.store
    ELSE ClearPatterns([c EXCEPT !.store = CacheClearPattern(c, Head(patterns)).store],
                       Tail(patterns))

\* CacheService.invalidate_related: the store it leaves
CacheInvalidateRelated(c, entity_type, entity_id) ==
    ClearPatterns(c, InvalidatePatterns(entity_type, entity_id))

PatternKeyChoices ==
    {job(1), candidate(1), dashboard_stats, recent_activity,
     ai_embedding(Md5Hex(<<"j">>)), ai_skills(Md5Hex(<<"a">>))}

PatternChoices ==
    {<<"*">>, Around(JobType), Around(StatsName), job(1),
     <<"j", "o", "b", ":", "?">>, Around(<<"z">>)}

\* routers/intake.py: an edit of an entity invalidates what relates to it
InvalidateRelated(entity_type, entity_id) ==
    /\ last = Idle
    /\ store' = CacheInvalidateRelated(TheCache, entity_type, entity_id)
    /\ last' = [op |-> "invalidate_related", entity_type |-> entity_type,
                entity_id |-> entity_id, before |-> store]
    /\ UNCHANGED <<db, reqs, recovered, connected, storeUp, depUp, sleeps, elapsed>>

InitKeys == Init /\ depUp

NextKeys ==
    \/ \E k \in PatternKeyChoices, t \in {NoTtl, <<1>>} : Set(k, IntVal(1), t)
    \/ \E p \in PatternChoices : ClearPattern(p)
    \/ \E ty \in {JobType, CandidateType}, id \in {NoId, <<0>>, <<1>>} :
          InvalidateRelated(ty, id)
    \/ StoreOutage
    \/ StoreRecovery
    \/ Return

SpecKeys == InitKeys /\ [][NextKeys]_vars

----------------------------------------------------------------------------
(* Concurrent requests.  get, set and delete are one Redis command each;   *)
(* clear_pattern is two, KEYS and then DEL of the keys KEYS returned.      *)

CanStart(r) == reqs[r].pc = "idle" /\ Len(reqs[r].hist) < MaxOps

Completed(r, entry) ==
    [reqs EXCEPT ![r] = [pc |-> "idle", pattern |-> <<>>, keys |-> {},
                         hist |-> Append(reqs[r].hist, entry)]]

ReqGet(r, key) ==
    /\ CanStart(r)
    /\ reqs' = Completed(r, [op |-> "get", arg |-> key, value |-> NoneVal,
                             ret |-> CacheGet(TheCache, key)])
    /\ UNCHANGED <<db, connected, store, storeUp, recovered, depUp, sleeps, elapsed, last>>

ReqSet(r, key, value) ==
    /\ CanStart(r)
    /\ \E res \in {CacheSet(TheCache, key, value, NoTtl)} :
        /\ store' = res.store
        /\ reqs' = Completed(r, [op |-> "set", arg |-> key, value |-> value,
                                 ret |-> BoolVal(res.ok)])
    /\ UNCHANGED <<db, connected, storeUp, recovered, depUp, sleeps, elapsed, last>>

ReqDelete(r, key) ==
    /\ CanStart(r)
    /\ \E res \in {CacheDelete(TheCache, key)} :
        /\ store' = res.store
        /\ reqs' = Completed(r, [op |-> "delete", arg |-> key, value |-> NoneVal,
                                 ret |-> BoolVal(res.ok)])
    /\ UNCHANGED <<db, connected, storeUp, recovered, depUp, sleeps, elapsed, last>>

\* clear_pattern up to and including redis_client.keys(pattern)
ReqClearKeys(r, pattern) ==
    /\ CanStart(r)
    /\ IF ~connected \/ ~storeUp \/ RedisKeys(store, pattern) = {}
       THEN reqs' = Completed(r, [op |-> "clear_pattern", arg |-> pattern,
                                  value |-> NoneVal, ret |-> IntVal(0)])
       ELSE reqs' = [reqs EXCEPT ![r].pc = "clear_delete",
                                 ![r].pattern = pattern,
                                 ![r].keys = RedisKeys(store, pattern)]
    /\ UNCHANGED <<db, connected, store, storeUp, recovered, depUp, sleeps, elapsed, last>>

\* clear_pattern from redis_client.delete(*keys) on: DEL counts the keys
\* that were still there
ReqClearDelete(r) ==
    /\ reqs[r].pc = "clear_delete"
    /\ IF ~storeUp
       THEN /\ store' = store
            /\ reqs' = Completed(r, [op |-> "clear_pattern", arg |-> reqs[r].pattern,
                                     value |-> NoneVal, ret |-> IntVal(0)])
       ELSE /\ store' = RedisDelete(store, reqs[r].keys)
            /\ reqs' = Completed(r, [op |-> "clear_pattern", arg |-> reqs[r].pattern,
                                     value |-> NoneVal,
                                     ret |-> IntVal(Cardinality(reqs[r].keys
                                                                \cap DOMAIN store))])
    /\ UNCHANGED <<db, connected, storeUp, recovered, depUp, sleeps, elapsed, last>>

InitConc == Init /\ connected /\ depUp

NextConc ==
    \E r \in Requests :
        \/ \E k \in CacheKeyChoices : ReqGet(r, k)
        \/ \E k \in CacheKeyChoices : ReqSet(r, k, IntVal(1))
        \/ \E k \in CacheKeyChoices : ReqDelete(r, k)
        \/ ReqClearKeys(r, <<"*">>)
        \/ ReqClearDelete(r)

SpecConc == InitConc /\ [][NextConc]_vars

----------------------------------------------------------------------------
(* Direct use of the AI service *)

AITexts ==
    {<<>>, <<" ">>, <<"a">>, <<" ", "a">>,
     Repeat("a", MIN_SKILLS_TEXT - 1),
     Repeat("a", MIN_SKILLS_TEXT),
     <<" ">> \o Repeat("a", MIN_SKILLS_TEXT),
     Repeat("b", MIN_SKILLS_TEXT)}

GetEmbeddingCall(text) ==
    /\ last = Idle
    /\ \E r \in {GetEmbedding(TheCache, depUp, text)} :
        /\ store' = r.store
        /\ last' = [op |-> "get_embedding", text |-> text, ret |-> r.ret,
                    calls |-> r.calls, errors |-> r.errors,
                    key |-> ai_embedding(Md5Hex(Strip(text))),
                    present |-> ai_embedding(Md5Hex(Strip(text))) \in DOMAIN store,
                    wrote |-> r.store # store]
        /\ UNCHANGED <<db, reqs, recovered, connected, storeUp, depUp, sleeps, elapsed>>

ExtractSkillsCall(text) ==
    /\ last = Idle
    /\ \E r \in {ExtractSkills(TheCache, depUp, text)} :
        /\ store' = r.store
        /\ last' = [op |-> "extract_skills_from_text", text |-> text, ret |-> r.ret,
                    calls |-> r.calls, errors |-> r.errors,
                    key |-> ai_skills(Md5Hex(Strip(text))),
                    present |-> ai_skills(Md5Hex(Strip(text))) \in DOMAIN store,
                    wrote |-> r.store # store]
        /\ UNCHANGED <<db, reqs, recovered, connected, storeUp, depUp, sleeps, elapsed>>

NextAI ==
    \/ \E t \in AITexts : GetEmbeddingCall(t)
    \/ \E t \in AITexts : ExtractSkillsCall(t)
    \/ ClearCache
    \/ StoreOutage
    \/ StoreRecovery
    \/ DependencyOutage
    \/ DependencyRecovery
    \/ last = Idle /\ Sleep(SKILLS_TTL)
    \/ Return

SpecAI == Init /\ [][NextAI]_vars

----------------------------------------------------------------------------
(* Properties of the fit engine *)

Statuses == {"FIT", "BORDERLINE", "NOT_FIT"}

AfterMatch == last.op = "compute_fit_score_async"

MissingMustHave == last.rq.must_have \ last.skills

\* the score of section 4.2: the blend, clamped to [0,1]
BlendedScore(semantic, must, nice, have) ==
    RatAdd(RatMul(Rat(4, 10), semantic),
           RatMul(Rat(6, 10),
                  RatAdd(Rat(Cardinality(must \cap have), Max(Cardinality(must), 1)),
                         RatMul(Rat(3, 10),
                                Rat(Cardinality(nice \cap have),
                                    Max(Cardinality(nice), 1))))))

\* C1: for every input and every behaviour of the provider and of the
\* cache, compute_match_score returns, without raising, a score in [0,1]
\* and a status among FIT, BORDERLINE, NOT_FIT.
C1_WellFormedResult ==
    AfterMatch =>
        /\ ~last.res.raised
        /\ RatGe(last.res.score, Zero)
        /\ RatGe(One, last.res.score)
        /\ last.res.status \in Statuses

\* C2: whenever a must-have skill is absent from the resume skills, the
\* status is NOT_FIT, whatever the semantic score and the nice-to-have
\* coverage.
C2_HardGate ==
    (AfterMatch /\ last.rq.wellformed /\ MissingMustHave # {}) =>
        last.res.status = "NOT_FIT"

\* a must-have skill is missing although the similarity is 1.0, the
\* nice-to-have skills are all there and the blend is at least 0.75
C2_Witness ==
    /\ AfterMatch /\ last.rq.wellformed
    /\ MissingMustHave # {}
    /\ last.res.semantic = One
    /\ last.rq.nice_to_have # {} /\ last.rq.nice_to_have \subseteq last.skills
    /\ RatGe(last.res.score, Rat(75, 100))
    /\ last.res.status = "NOT_FIT"

\* C3: the returned score is the clamped blend of the semantic score and
\* the skill score; must = {Python, SQL}, nice = {Docker}, all three in the
\* resume and a semantic score of 0.9 give score 1.0 and status FIT.
C3_ClampedBlend ==
    (AfterMatch /\ last.rq.wellformed) =>
        /\ last.res.score =
              Clamp01(BlendedScore(last.res.semantic, last.rq.must_have,
                                   last.rq.nice_to_have, last.skills))
        /\ (/\ last.rq.must_have = {"Python", "SQL"}
            /\ last.rq.nice_to_have = {"Docker"}
            /\ last.skills = {"Python", "SQL", "Docker"}
            /\ last.res.semantic = Rat(9, 10))
           => (last.res.score = One /\ last.res.status = "FIT")

\* C4: with no must-have skill, every nice-to-have skill present and a
\* semantic score of at least 0.75, the status is FIT.
C4_FitWithoutMustHave ==
    (/\ AfterMatch /\ last.rq.wellformed
     /\ last.rq.must_have = {}
     /\ last.rq.nice_to_have \subseteq last.skills
     /\ RatGe(last.res.semantic, Rat(75, 100)))
    => last.res.status = "FIT"

\* score, status and reasons of a result
Triple(r) == [score |-> r.score, status |-> r.status, reasons |-> r.reasons]

\* C5: whenever the embedding call raises during a match request,
\* compute_fit_score_async returns what compute_fit_score_fallback yields
\* for the same must-have set and candidate skills.
C5_FallbackOnDependencyError ==
    (AfterMatch /\ last.rq.wellformed /\ last.res.errors > 0) =>
        Triple(last.res) =
            Triple(compute_fit_score_fallback(store, last.rq,
                       [shape |-> "dict", skills |-> last.skills]))

\* C6: compute_fit_score_fallback never raises, whatever it is called
\* with, the bare skill list handed over by compute_fit_score_async
\* included; an internal error gives score 0.0, NOT_FIT and one reason.
C6_FallbackNeverRaises ==
    last.op = "compute_fit_score_fallback" =>
        /\ ~last.res.raised
        /\ (~last.rq.wellformed \/ last.resume.shape # "dict") =>
              /\ last.res.score = Zero
              /\ last.res.status = "NOT_FIT"
              /\ Len(last.res.reasons) = 1

\* a cache that is absent altogether
NoCache == [connected |-> FALSE, up |-> FALSE, store |-> EmptyStore]

\* C7: with a provider that returns the same vector for the same text, the
\* score, status and reasons of every match request are those the engine
\* gives without any cache, whether the cache is connected, disconnected,
\* unreachable, expired or cleared between requests.
C7_CacheIsNotACorrectnessDependency ==
    AfterMatch =>
        Triple(last.res) =
            Triple(compute_fit_score_async(NoCache, TRUE, last.jd, last.rq,
                                           last.cv, last.skills))

\* both embeddings of a request were served from the cache
C7_Witness ==
    /\ AfterMatch /\ last.rq.wellformed
    /\ connected /\ storeUp
    /\ last.res.calls = 0
    /\ Strip(last.jd) # Strip(last.cv)
    /\ last.res.semantic = Rat(9, 10)

----------------------------------------------------------------------------
(* Properties of the cache *)

\* the ttl a caller asked for: its argument, or the default when it gave none
RequestedTtl(ttl) == IF ttl = NoTtl THEN CACHE_TTL ELSE ttl[1]

\* C8: on a connected cache, get(k) after a successful set(k, v, ttl),
\* before ttl has elapsed and with no write to k in between, returns a
\* value equal to v, for scalars and composite values alike.
C8_RoundTrip ==
    (/\ last.op = "set" /\ last.ok
     /\ connected /\ storeUp
     /\ elapsed < RequestedTtl(last.ttl))
    => CacheGet(TheCache, last.key) = last.value

\* a non-empty list was stored, time has passed and it is read back
C8_Witness ==
    /\ last.op = "set" /\ last.ok
    /\ connected /\ storeUp
    /\ last.value = ListVal(<<1, 2>>)
    /\ elapsed > 0 /\ elapsed < RequestedTtl(last.ttl)
    /\ CacheGet(TheCache, last.key) = last.value

\* C9: after set(k, v, ttl), once more than ttl seconds have passed with
\* no further write to k, get(k) returns absent, for every ttl the caller
\* passes, 0 included; the default is used only when no ttl is given.
C9_Expiration ==
    (/\ last.op = "set"
     /\ connected /\ storeUp
     /\ last.ttl # NoTtl
     /\ elapsed > last.ttl[1])
    => CacheGet(TheCache, last.key) = NoneVal

\* C10: get_or_set invokes its producer at most once per call, exactly
\* once when the value is not served from the cache, whether the cache is
\* connected or not and also when the producer raises.
C10_ProducerAtMostOnce ==
    last.op = "get_or_set" =>
        /\ last.calls <= 1
        /\ last.calls = 1 <=> last.cached = NoneVal

\* C11: get_or_set never suppresses a failure of its producer: when the
\* producer raises on a call that misses the cache, the call raises and
\* nothing is stored under the key.
C11_ProducerFailureReachesCaller ==
    (/\ last.op = "get_or_set"
     /\ last.cached = NoneVal
     /\ last.func[1].raises)
    => (last.raised /\ ~last.wrote)

\* k contains sub as a substring
Contains(k, sub) ==
    \E i \in 0..(Len(k) - Len(sub)) : SubSeq(k, i + 1, i + Len(sub)) = sub

\* whether a key matches one of the patterns of PatternChoices, said
\* without the matcher: "*" matches every key, "*s*" the keys that contain
\* s, "job:?" the keys made of "job:" and one more character, and a
\* pattern without wildcard itself only
ShouldMatch(p, k) ==
    IF p = <<"*">> THEN TRUE
    ELSE IF Head(p) = "*" THEN Contains(k, SubSeq(p, 2, Len(p) - 1))
    ELSE IF p[Len(p)] = "?"
         THEN Len(k) = Len(p) /\ SubSeq(k, 1, Len(p) - 1) = SubSeq(p, 1, Len(p) - 1)
    ELSE k = p

\* C12: clear_pattern(p) on a connected cache removes every key that
\* matches p, leaves every other key with its value and expiration, and
\* returns the number of keys it removed; clear_pattern("*") leaves the
\* store empty.
C12_ClearPattern ==
    (last.op = "clear_pattern" /\ connected /\ storeUp) =>
        /\ DOMAIN store = {k \in DOMAIN last.before : ~ShouldMatch(last.pattern, k)}
        /\ \A k \in DOMAIN store : store[k] = last.before[k]
        /\ last.count =
              Cardinality({k \in DOMAIN last.before : ShouldMatch(last.pattern, k)})
        /\ last.pattern = <<"*">> => store = EmptyStore

\* "*job*" removed a key and left the keys that do not contain "job"
C12_Witness ==
    /\ last.op = "clear_pattern" /\ connected /\ storeUp
    /\ last.pattern = Around(JobType)
    /\ last.count = 1
    /\ Cardinality(DOMAIN store) >= 2
    /\ \E k \in DOMAIN store : store[k].ttl < CACHE_TTL

\* a key names neither the entity type nor an aggregate namespace
Unrelated(k, entity_type) ==
    /\ ~Contains(k, entity_type)
    /\ ~Contains(k, DashboardName)
    /\ ~Contains(k, StatsName)

AiKeyPrefix == <<"a", "i", ":">>

\* C17: invalidate_related(entity_type, entity_id) on a connected cache
\* leaves no key that contains the entity type name, "dashboard" or
\* "stats", and leaves every other key untouched; invalidating "job" or
\* "candidate" never removes an ai:embedding or ai:skills entry.
C17_InvalidateRelated ==
    (last.op = "invalidate_related" /\ connected /\ storeUp) =>
        /\ \A k \in DOMAIN store : Unrelated(k, last.entity_type)
        /\ \A k \in DOMAIN last.before :
              Unrelated(k, last.entity_type) =>
                  (k \in DOMAIN store /\ store[k] = last.before[k])
        /\ \A k \in DOMAIN last.before :
              SubSeq(k, 1, Len(AiKeyPrefix)) = AiKeyPrefix => k \in DOMAIN store

\* editing a job removed the job entry and both dashboard entries and
\* left the candidate entry and both ai entries
C17_Witness ==
    /\ last.op = "invalidate_related" /\ connected /\ storeUp
    /\ last.entity_type = JobType
    /\ {job(1), dashboard_stats, recent_activity} \subseteq DOMAIN last.before
    /\ DOMAIN store =
          {candidate(1), ai_embedding(Md5Hex(<<"j">>)), ai_skills(Md5Hex(<<"a">>))}

\* one whole operation applied to a store that is connected and reachable:
\* [ret, store]
Whole(st, e) ==
    LET c == [connected |-> TRUE, up |-> TRUE, store |-> st]
    IN  CASE e.op = "get" -> [ret |-> CacheGet(c, e.arg), store |-> st]
          [] e.op = "set" ->
                [ret |-> BoolVal(CacheSet(c, e.arg, e.value, NoTtl).ok),
                 store |-> CacheSet(c, e.arg, e.value, NoTtl).store]
          [] e.op = "delete" ->
                [ret |-> BoolVal(CacheDelete(c, e.arg).ok),
                 store |-> CacheDelete(c, e.arg).store]
          [] e.op = "clear_pattern" ->
                [ret |-> IntVal(CacheClearPattern(c, e.arg).count),
                 store |-> CacheClearPattern(c, e.arg).store]

\* some sequential order of the whole operations of two histories, each
\* history in its own order, starts from st, gives every operation the
\* result it had and ends in the current store
RECURSIVE Sequential(_, _, _)
Sequential(st, h1, h2) ==
    IF h1 = <<>> /\ h2 = <<>> THEN st = store
    ELSE \/ /\ h1 # <<>>
            /\ Whole(st, Head(h1)).ret = Head(h1).ret
            /\ Sequential(Whole(st, Head(h1)).store, Tail(h1), h2)
         \/ /\ h2 # <<>>
            /\ Whole(st, Head(h2)).ret = Head(h2).ret
            /\ Sequential(Whole(st, Head(h2)).store, h1, Tail(h2))

\* C13: every cache operation, clear_pattern included, takes effect
\* atomically: whatever the interleaving of the requests, the results and
\* the final store are those of some sequential order of whole operations
\* that respects each request's own order.
C13_Atomic ==
    (\A r \in Requests : reqs[r].pc = "idle") =>
        Sequential(EmptyStore, reqs[1].hist, reqs[2].hist)

\* C14: while the cache is disconnected every operation returns at once,
\* without touching the store and without raising: get returns absent,
\* set, delete and exists return False, clear_pattern returns 0, and
\* get_or_set returns what its producer returns.
C14_DisconnectedShortCircuits ==
    ~connected =>
        /\ last.op = "get" => last.ret = NoneVal
        /\ last.op = "set" => (~last.ok /\ ~last.wrote)
        /\ last.op = "delete" => (~last.ok /\ ~last.wrote)
        /\ last.op = "exists" => ~last.ret
        /\ last.op = "clear_pattern" => (last.count = 0 /\ ~last.wrote)
        /\ (last.op = "get_or_set" /\ ~last.func[1].raises) =>
              /\ ~last.raised /\ ~last.wrote
              /\ last.ret = last.func[1].value

\* the store is reachable again and holds a readable entry under the key,
\* and the disconnected cache still answers absent
C14_Witness ==
    /\ ~connected /\ storeUp
    /\ last.op = "get" /\ last.ret = NoneVal
    /\ last.stored.found /\ _deserialize(last.stored.data) = IntVal(1)

\* a payload that fails the text decoding and the binary decoding
Corrupt(data) ==
    /\ ~(Utf8Decodes(data) /\ JsonLoads(data).ok)
    /\ ~PickleLoads(data).ok

\* C15: on a cache that connected at start, a failure during an operation
\* is absorbed as a miss or a no-op: while the store does not answer, get
\* returns absent, set and delete return False and clear_pattern returns
\* 0, and a stored payload that fails both decodings reads as absent.
C15_FailuresAbsorbed ==
    connected =>
        /\ ~storeUp =>
              /\ last.op = "get" => last.ret = NoneVal
              /\ last.op = "set" => (~last.ok /\ ~last.wrote)
              /\ last.op = "delete" => (~last.ok /\ ~last.wrote)
              /\ last.op = "clear_pattern" => (last.count = 0 /\ ~last.wrote)
        /\ (storeUp /\ last.op = "get" /\ last.stored.found
            /\ Corrupt(last.stored.data)) => last.ret = NoneVal

\* a corrupt payload was read from a reachable store
C15_Witness ==
    /\ connected /\ storeUp
    /\ last.op = "get" /\ last.stored.found /\ Corrupt(last.stored.data)
    /\ last.ret = NoneVal

\* a set with a ttl the store accepts, still within that ttl
WithinTtl ==
    /\ last.op = "set"
    /\ RequestedTtl(last.ttl) > 0
    /\ elapsed < RequestedTtl(last.ttl)

\* C16: an outage is a miss only until the store is reachable again: after
\* any outage, one in progress when the process starts included, once the
\* store answers again set(k, v) succeeds and get(k) returns v.
C16_ResumesAfterAnyOutage ==
    (recovered /\ storeUp /\ WithinTtl) =>
        (last.ok /\ CacheGet(TheCache, last.key) = last.value)

\* C16 as amended: the same for every outage that begins after the
\* connection probe of the process succeeded.
C16_ResumesAfterOutage ==
    (connected /\ recovered /\ storeUp /\ WithinTtl) =>
        (last.ok /\ CacheGet(TheCache, last.key) = last.value)

\* after an outage of a connected cache a list is stored and read back
C16_Witness ==
    /\ connected /\ recovered /\ storeUp /\ WithinTtl
    /\ last.ok /\ last.value = ListVal(<<1, 2>>)
    /\ CacheGet(TheCache, last.key) = last.value

AfterAICall == last.op \in {"get_embedding", "extract_skills_from_text"}

\* C18: get_embedding and extract_skills_from_text both return an absent
\* or empty result, without invoking the external dependency, whenever the
\* text is empty, blank or shorter than 50 characters after stripping.
C18_CostControlGuard ==
    (AfterAICall /\ Len(Strip(last.text)) < MIN_SKILLS_TEXT) =>
        /\ last.calls = 0
        /\ last.ret = IF last.op = "get_embedding" THEN NoneVal ELSE ListVal(<<>>)

\* the results the provider yields for the texts with the same stripped text
ProvidedFor(text) ==
    IF last.op = "get_embedding"
    THEN {ListVal(OpenAIEmbedding(Strip(text)))}
    ELSE {ListVal(ParseSkills(OpenAIChat(t))) : t \in {x \in AITexts : Strip(x) = Strip(text)}}

\* C19: a call that completes successfully with the cache connected leaves
\* an entry for the stripped text (24 h for embeddings, 12 h for skills),
\* and while that entry is there every call with the same stripped text
\* returns the memoized result, an empty skill list included, without
\* invoking the external dependency.
C19_Memoization ==
    (AfterAICall /\ connected /\ storeUp) =>
        /\ (last.calls = 1 /\ last.errors = 0) =>
              /\ last.key \in DOMAIN store
              /\ store[last.key].ttl =
                    IF last.op = "get_embedding" THEN EMBEDDING_TTL ELSE SKILLS_TTL
              /\ _deserialize(store[last.key].data) = last.ret
        /\ last.present =>
              /\ last.calls = 0
              /\ last.ret \in ProvidedFor(last.text)

\* an empty skill list was served from the cache
C19_Witness ==
    /\ last.op = "extract_skills_from_text" /\ connected /\ storeUp
    /\ last.present /\ last.calls = 0
    /\ last.ret = ListVal(<<>>)
    /\ Len(Strip(last.text)) >= MIN_SKILLS_TEXT

\* the double x is the real number r up to 2^-50
NearReal(x, r) ==
    LET a == MagMul(x.mag, r.den)
        b == MagMul(Double_1_0.mag, r.num)
        diff == IF MagLess(a, b) THEN MagSub(b, a) ELSE MagSub(a, b)
    IN  /\ ~x.neg /\ r.num >= 0
        /\ MagLess(diff, <<r.den * 128 + 1, 0, 0, 0, 0>>)

\* the score of the heuristic: 0.5 + 0.1*overlap - 0.05*missing in [0,1]
FallbackScore(must, have) ==
    Clamp01(RatSub(RatAdd(Rat(5, 10), Rat(Cardinality(must \cap have), 10)),
                   Rat(5 * Cardinality(must \ have), 100)))

FallbackStatus(score) ==
    IF RatGe(score, Rat(70, 100)) THEN "FIT"
    ELSE IF RatGe(score, Rat(55, 100)) THEN "BORDERLINE"
    ELSE "NOT_FIT"

\* C20: for every must-have set and candidate skill set the heuristic
\* returns the score 0.5 + 0.1*|must /\ have| - 0.05*|must \ have| clamped
\* to [0,1], and the status FIT from 0.70, BORDERLINE from 0.55 and NOT_FIT
\* below.
C20_FallbackFormula ==
    (/\ last.op = "compute_fit_score_fallback"
     /\ last.rq.wellformed /\ last.resume.shape = "dict")
    => /\ ~last.res.raised
       /\ NearReal(last.res.score,
                   FallbackScore(last.rq.must_have, last.resume.skills))
       /\ last.res.status =
             FallbackStatus(FallbackScore(last.rq.must_have, last.resume.skills))

----------------------------------------------------------------------------
(* Explanations and classification *)

\* the entries a reasons list may hold, in their order, each with the
\* condition under which it is there
ReasonCandidates(must, nice, have, semantic) ==
    << [applies |-> must \cap have # {},
        entry |-> [text |-> "Matched must-have skills", skills |-> must \cap have]],
       [applies |-> must \ have # {},
        entry |-> [text |-> "Missing must-have skills", skills |-> must \ have]],
       [applies |-> nice \cap have # {},
        entry |-> [text |-> "Bonus skills", skills |-> nice \cap have]],
       [applies |-> RatGt(semantic, Rat(70, 100)),
        entry |-> [text |-> "High semantic similarity to job description",
                   skills |-> {}]] >>

Applies(candidate_entry) == candidate_entry.applies

ExpectedReasons(must, nice, have, semantic) ==
    LET chosen == SelectSeq(ReasonCandidates(must, nice, have, semantic), Applies)
    IN  [i \in 1..Len(chosen) |-> chosen[i].entry]

\* C21: the reasons of compute_match_score are, in this order, the matched
\* must-have skills iff there are any, the missing must-have skills
\* (exactly must \ have) iff there are any, the matched nice-to-have skills
\* iff there are any, and the similarity note iff the semantic score is
\* above 0.70; so they are never empty when must_have is not, and a single
\* must-have skill against an empty resume is reported as missing.
C21_ReasonsInOrder ==
    (AfterMatch /\ last.rq.wellformed) =>
        /\ last.res.reasons =
              ExpectedReasons(last.rq.must_have, last.rq.nice_to_have,
                              last.skills, last.res.semantic)
        /\ last.rq.must_have # {} => last.res.reasons # <<>>
        /\ (Cardinality(last.rq.must_have) = 1 /\ last.skills = {}) =>
              \E i \in 1..Len(last.res.reasons) :
                  last.res.reasons[i] =
                      [text |-> "Missing must-have skills",
                       skills |-> last.rq.must_have]

\* all four entries are there, in their order
C21_Witness ==
    /\ AfterMatch /\ last.rq.wellformed
    /\ Len(last.res.reasons) = 4
    /\ last.res.reasons[2].skills = {"SQL"}
    /\ last.res.reasons[3].text = "Bonus skills"

\* C22: compute_match_score gives at least one reason whenever there is
\* any skill-set information: the reasons are empty only if the must-have
\* and the nice-to-have sets are both empty and the semantic score is at
\* most 0.70.
C22_ReasonsUnlessNoInformation ==
    (AfterMatch /\ last.rq.wellformed /\ last.res.reasons = <<>>) =>
        /\ last.rq.must_have = {}
        /\ last.rq.nice_to_have = {}
        /\ ~RatGt(last.res.semantic, Rat(70, 100))

\* the number of significant bits of a magnitude
MagBits(a) ==
    LET top == CHOOSE i \in 0..5 :
                   (i = 0 \/ a[i] # 0) /\ \A j \in (i + 1)..5 : a[j] = 0
    IN  IF top = 0 THEN 0 ELSE 15 * (top - 1) + BitLength(a[top])

\* the double x is the float of the real number r: no double is nearer
IsDoubleOf(x, r) ==
    LET n == Abs(r.num)
        a == MagMul(x.mag, r.den)
        b == MagMul(Double_1_0.mag, n)
        diff == IF MagLess(a, b) THEN MagSub(b, a) ELSE MagSub(a, b)
        ulp == IF MagBits(x.mag) > 53 THEN 2^(MagBits(x.mag) - 53) ELSE 1
    IN  /\ (n # 0 /\ x.mag # MagZero) => (x.neg <=> r.num < 0)
        /\ ~MagLess(MagMul(<<ulp, 0, 0, 0, 0>>, r.den), MagMul(diff, 2))

IsRational(x) == "num" \in DOMAIN x

\* two scores are the same float
SameScore(x, y) ==
    IF IsRational(x) = IsRational(y) THEN x = y
    ELSE IF IsRational(x) THEN IsDoubleOf(y, x)
    ELSE IsDoubleOf(x, y)

\* what the claim looks at in a result
Classified(r, must, have) ==
    [score |-> r.score, gap |-> must \ have # {}, status |-> r.status]

\* the results the engine returns: those of the primary path, with the
\* provider answering and failing, and those of the heuristic
PrimaryResults ==
    {Classified(compute_match_score(NoCache, up, <<"j">>, rq, cv, sk),
                rq.must_have, sk) :
        up \in BOOLEAN, rq \in JobRequirements, cv \in ScoreTexts,
        sk \in ResumeSkills}

HeuristicResults ==
    {Classified(compute_fit_score_fallback(EmptyStore, rq, rj),
                rq.must_have, rj.skills) :
        rq \in {x \in JdJsons : x.wellformed},
        rj \in {x \in ResumeJsons : x.shape = "dict"}}

AfterFit ==
    /\ last.op \in {"compute_fit_score_async", "compute_fit_score",
                    "compute_fit_score_fallback"}
    /\ ~last.res.raised

\* the candidate's skills of the last call
LastSkills == IF AfterMatch THEN last.skills ELSE last.resume.skills

\* the last result came from compute_match_score
OnPrimaryPath ==
    \/ AfterMatch
    \/ /\ last.op = "compute_fit_score"
       /\ last.loop = "idle" /\ last.resume.shape = "dict"

\* C23: status is a function of score and must-have gap over every result
\* of the engine, primary, error and heuristic: two results with the same
\* score and the same emptiness of must \ have have the same status.
C23_StatusDeterministic ==
    AfterFit =>
        \A e \in PrimaryResults \cup HeuristicResults :
            (/\ SameScore(e.score, last.res.score)
             /\ e.gap = (last.rq.must_have \ LastSkills # {}))
            => e.status = last.res.status

PrimaryLadder(gap, score) ==
    IF gap THEN "NOT_FIT"
    ELSE IF RatGe(score, Rat(75, 100)) THEN "FIT"
    ELSE IF RatGe(score, Rat(50, 100)) THEN "BORDERLINE"
    ELSE "NOT_FIT"

HeuristicLadder(score) ==
    IF DoubleGe(score, Double_0_70) THEN "FIT"
    ELSE IF DoubleGe(score, Double_0_55) THEN "BORDERLINE"
    ELSE "NOT_FIT"

\* C23 as amended: within one scoring path status is a function of score
\* and gap: for compute_match_score NOT_FIT with a gap, else FIT from 0.75
\* and BORDERLINE from 0.50; for the heuristic FIT from 0.70 and
\* BORDERLINE from 0.55, whatever the gap.
C23_StatusPerPath ==
    AfterFit =>
        last.res.status =
            IF OnPrimaryPath
            THEN PrimaryLadder(last.rq.must_have \ LastSkills # {}, last.res.score)
            ELSE HeuristicLadder(last.res.score)

\* the primary path returned 0.7 with every must-have skill present, a
\* score and gap for which the heuristic answers FIT
C23_Witness ==
    /\ AfterMatch /\ last.rq.wellformed
    /\ last.rq.must_have # {} /\ last.rq.must_have \subseteq last.skills
    /\ last.res.score = Rat(7, 10)
    /\ last.res.status = "BORDERLINE"
    /\ \E e \in HeuristicResults :
          SameScore(e.score, last.res.score) /\ ~e.gap /\ e.status = "FIT"

----------------------------------------------------------------------------
(* POST /match (app/routers/match.py) *)

\* applications the database takes
MaxApplications == 2

\* a nullable column: <<>> is NULL, <<v>> is v
Null == <<>>

\* db.get(Model, id): <<row>>, or <<>> for None; a table maps ids to rows
DbGet(table, id) == IF id \in DOMAIN table THEN <<table[id]>> ELSE Null

\* db.add(app); db.commit(); db.refresh(app): the row gets the next id
Persist_NoCommit(applications, app) == applications

Persist(applications, app) ==
    Append(applications, [app EXCEPT !.id = Len(applications) + 1])

\* job.jd_text or "", job.jd_json or {}
JobDescription(job_row) ==
    IF job_row.jd_text = Null THEN <<>> ELSE job_row.jd_text[1]

JobRequirementsOf(job_row) ==
    IF job_row.jd_json = Null
    THEN [wellformed |-> TRUE, must_have |-> {}, nice_to_have |-> {}]
    ELSE job_row.jd_json[1]

\* cand.resume_json.get("text", "") and .get("skills", []) if
\* cand.resume_json else "" and []
ResumeTextOf(cand) ==
    IF cand.resume_json = Null THEN <<>> ELSE cand.resume_json[1].text

ResumeSkillsOf(cand) ==
    IF cand.resume_json = Null THEN {} ELSE cand.resume_json[1].skills

NoBody == [detail |-> "none"]

\* the endpoint once the engine has answered r: the application is saved
\* and reported
Respond(d, job_id, candidate_id, r) ==
    LET app == [id |-> 0, candidate_id |-> candidate_id, job_id |-> job_id,
                fit_score |-> r.score, fit_status |-> r.status,
                reasons |-> r.reasons]
        saved == Persist(d.applications, app)
    IN  IF r.raised \/ r.status \notin {"NOT_FIT", "FIT", "BORDERLINE"}
        THEN [status_code |-> 500, body |-> NoBody, db |-> d, store |-> r.store]
        ELSE [status_code |-> 200,
              body |-> [application_id |-> Len(saved), fit_score |-> r.score,
                        fit_status |-> r.status, reasons |-> r.reasons],
              db |-> [d EXCEPT !.applications = saved],
              store |-> r.store]

\* the endpoint: [status_code, body, db, store]
MatchEndpoint(d, c, up, job_id, candidate_id) ==
    IF DbGet(d.jobs, job_id) = Null \/ DbGet(d.candidates, candidate_id) = Null
    THEN [status_code |-> 404,
          body |-> [detail |-> "job or candidate not found"],
          db |-> d, store |-> c.store]
    ELSE CHOOSE response \in
             {Respond(d, job_id, candidate_id, r) :
                 r \in {compute_fit_score_async(c, up,
                            JobDescription(DbGet(d.jobs, job_id)[1]),
                            JobRequirementsOf(DbGet(d.jobs, job_id)[1]),
                            ResumeTextOf(DbGet(d.candidates, candidate_id)[1]),
                            ResumeSkillsOf(DbGet(d.candidates, candidate_id)[1]))}} :
             TRUE

\* rows the tables hold: a job with text and skills and one with both
\* columns NULL; a parsed resume, a resume without text and a NULL resume
IntakeRows ==
    [jobs |->
        << [jd_text |-> <<(<<"j">>)>>,
            jd_json |-> <<[wellformed |-> TRUE, must_have |-> {"Python", "SQL"},
                           nice_to_have |-> {"Docker"}]>>],
           [jd_text |-> Null, jd_json |-> Null] >>,
     candidates |->
        << [resume_json |-> <<[text |-> <<"a">>,
                               skills |-> {"Python", "SQL", "Docker"}]>>],
           [resume_json |-> <<[text |-> <<>>, skills |-> {"Python"}]>>],
           [resume_json |-> Null] >>,
     applications |-> <<>>]

JobIds == 1..3
CandidateIds == 1..4

Match(job_id, candidate_id) ==
    /\ last = Idle
    /\ Len(db.applications) < MaxApplications
    /\ \E r \in {MatchEndpoint(db, TheCache, depUp, job_id, candidate_id)} :
        /\ db' = r.db
        /\ store' = r.store
        /\ last' = [op |-> "match", job_id |-> job_id,
                    candidate_id |-> candidate_id, before |-> db,
                    status_code |-> r.status_code, body |-> r.body]
    /\ UNCHANGED <<reqs, recovered, connected, storeUp, depUp, sleeps, elapsed>>

InitMatch ==
    /\ connected \in BOOLEAN
    /\ storeUp = connected
    /\ recovered = FALSE
    /\ store = EmptyStore
    /\ depUp \in BOOLEAN
    /\ sleeps = 0
    /\ elapsed = 0
    /\ last = Idle
    /\ reqs = NoRequests
    /\ db = IntakeRows

NextMatch ==
    \/ \E j \in JobIds, c \in CandidateIds : Match(j, c)
    \/ ClearCache
    \/ StoreOutage
    \/ StoreRecovery
    \/ DependencyOutage
    \/ DependencyRecovery
    \/ Return

SpecMatch == InitMatch /\ [][NextMatch]_vars

\* what the engine answers for a job and a candidate, whatever the state
\* of the provider and of the cache
EngineAnswers(job_row, cand) ==
    {Triple(compute_fit_score_async(
                [connected |-> TRUE, up |-> TRUE, store |-> st], up,
                JobDescription(job_row), JobRequirementsOf(job_row),
                ResumeTextOf(cand), ResumeSkillsOf(cand))) :
        up \in BOOLEAN, st \in {EmptyStore, store}}

\* C24: POST /match for an existing job and an existing candidate adds
\* exactly one Application, which carries the engine's score, status and
\* reasons, and returns its id, whatever the state of the provider and of
\* the cache; for a missing job or candidate it answers 404 and adds none.
C24_MatchPersistsOneApplication ==
    last.op = "match" =>
        IF /\ last.job_id \in DOMAIN last.before.jobs
           /\ last.candidate_id \in DOMAIN last.before.candidates
        THEN /\ last.status_code = 200
             /\ Len(db.applications) = Len(last.before.applications) + 1
             /\ SubSeq(db.applications, 1, Len(last.before.applications))
                   = last.before.applications
             /\ LET app == db.applications[Len(db.applications)]
                IN  /\ app.id = last.body.application_id
                    /\ \A i \in 1..Len(last.before.applications) :
                          last.before.applications[i].id # app.id
                    /\ app.job_id = last.job_id
                    /\ app.candidate_id = last.candidate_id
                    /\ [score |-> app.fit_score, status |-> app.fit_status,
                        reasons |-> app.reasons]
                          \in EngineAnswers(last.before.jobs[last.job_id],
                                  last.before.candidates[last.candidate_id])
                    /\ last.body.fit_score = app.fit_score
                    /\ last.body.fit_status = app.fit_status
                    /\ last.body.reasons = app.reasons
        ELSE /\ last.status_code = 404
             /\ db = last.before

\* a second application of the same candidate to the same job was added
\* while the provider was down
C24_Witness ==
    /\ last.op = "match" /\ last.status_code = 200
    /\ ~depUp
    /\ Len(db.applications) = 2
    /\ db.applications[1].job_id = db.applications[2].job_id
    /\ db.applications[1].candidate_id = db.applications[2].candidate_id
    /\ db.applications[2].id = 2

----------------------------------------------------------------------------
(* Connectivity (CacheService.__init__ and the five operations) *)

\* C25: the cache is connected exactly when the probe of the constructor
\* found the store reachable, and no later step, whether a cache operation
\* that succeeds or fails, an outage, a recovery or the passing of time,
\* changes that.
C25_ConnectivityFixedAtConstruction ==
    /\ connected <=> storeUp
    /\ [][connected' = connected]_vars

\* a read of a stored key failed on a cache that had connected, and the
\* cache is still connected
C25_Witness ==
    /\ last.op = "get" /\ last.stored.found /\ last.ret = NoneVal
    /\ connected /\ ~storeUp

----------------------------------------------------------------------------
(* Concurrent writers of one key.  A set is the call, which tests the flag  *)
(* and serialises the value on the caller's thread, and then the SETEX the  *)
(* store applies; the store applies one command at a time.                  *)

\* the key the requests write, one that holds an undecodable payload when
\* an earlier process has left its entries
WriteKeys == {job(1)}

WriteValues == {IntVal(1), StrVal(<<QUOTE, BACKSLASH>>), ListVal(<<1, 2>>)}

\* the values the store has applied to each key, in the order it applied them
NoWrites == [op |-> "applied", values |-> [k \in WriteKeys |-> <<>>]]

NoWriters ==
    [r \in Requests |-> [pc |-> "idle", key |-> <<>>, value |-> NoneVal,
                         seen |-> 0, hist |-> <<>>]]

\* CacheService.set up to redis_client.setex
ReqSetCall(r, key, value) ==
    /\ reqs[r].pc = "idle" /\ Len(reqs[r].hist) < MaxOps
    /\ IF ~connected
       THEN reqs' = [reqs EXCEPT ![r].hist =
                        Append(@, [op |-> "set", arg |-> key, value |-> value,
                                   ok |-> FALSE, overtaken |-> FALSE])]
       ELSE reqs' = [reqs EXCEPT ![r].pc = "setex", ![r].key = key,
                                 ![r].value = value,
                                 ![r].seen = Len(last.values[key])]
    /\ UNCHANGED <<db, connected, store, storeUp, recovered, depUp, sleeps, elapsed, last>>

\* redis_client.setex and the return of CacheService.set
ReqSetex(r) ==
    /\ reqs[r].pc = "setex"
    /\ \E res \in {CacheSet(TheCache, reqs[r].key, reqs[r].value, NoTtl)} :
        /\ store' = res.store
        /\ last' = IF res.ok
                   THEN [last EXCEPT !.values[reqs[r].key] = Append(@, reqs[r].value)]
                   ELSE last
        /\ reqs' = [reqs EXCEPT
                      ![r] = [pc |-> "idle", key |-> <<>>, value |-> NoneVal,
                              seen |-> 0,
                              hist |-> Append(reqs[r].hist,
                                  [op |-> "set", arg |-> reqs[r].key,
                                   value |-> reqs[r].value, ok |-> res.ok,
                                   overtaken |->
                                      Len(last.values[reqs[r].key]) > reqs[r].seen])]]
    /\ UNCHANGED <<db, connected, storeUp, recovered, depUp, sleeps, elapsed>>

InitWrites ==
    /\ connected = TRUE
    /\ storeUp = TRUE
    /\ recovered = FALSE
    /\ store \in {EmptyStore, PriorStore}
    /\ depUp = TRUE
    /\ sleeps = 0
    /\ elapsed = 0
    /\ last = NoWrites
    /\ reqs = NoWriters
    /\ db = NoRows

NextWrites ==
    \E r \in Requests :
        \/ \E k \in WriteKeys, v \in WriteValues : ReqSetCall(r, k, v)
        \/ ReqSetex(r)

SpecWrites == InitWrites /\ [][NextWrites]_vars

\* the sets on key k that have completed
SetsOn(k) ==
    {e \in UNION {{reqs[r].hist[i] : i \in 1..Len(reqs[r].hist)} : r \in Requests} :
        e.op = "set" /\ e.arg = k}

\* C26: once every set has completed, get(k) on a key that was set returns
\* the value of the set the store applied last, which is the value of one
\* of the completed sets: it is never absent and never anything else.
C26_LastWriteWins ==
    (\A r \in Requests : reqs[r].pc = "idle") =>
        \A k \in WriteKeys :
            SetsOn(k) # {} =>
                /\ last.values[k] # <<>>
                /\ CacheGet(TheCache, k) = last.values[k][Len(last.values[k])]
                /\ CacheGet(TheCache, k) \in {e.value : e \in SetsOn(k)}
                /\ CacheGet(TheCache, k) # NoneVal

\* two sets of different values on one key were in flight together, the
\* one called first was applied second, and its value is the one read
C26_Witness ==
    /\ \A r \in Requests : reqs[r].pc = "idle"
    /\ \E k \in WriteKeys :
          /\ Len(last.values[k]) = 2
          /\ last.values[k][1] # last.values[k][2]
          /\ \E e \in SetsOn(k) : e.overtaken /\ e.value = last.values[k][2]
          /\ CacheGet(TheCache, k) = last.values[k][2]

----------------------------------------------------------------------------
(* The hard gate on each path *)

\* the last call returned a result although a must-have skill is missing
\* from the candidate's skills
ReturnedWithGap == AfterFit /\ last.rq.must_have \ LastSkills # {}

\* C27: no result of compute_match_score, compute_fit_score_async,
\* compute_fit_score or compute_fit_score_fallback is FIT or BORDERLINE
\* while a must-have skill is missing from the candidate's skills.
C27_HardGateOnEveryPath ==
    ReturnedWithGap => last.res.status \notin {"FIT", "BORDERLINE"}

\* C27 as amended: the same for the results of compute_match_score, which
\* are those of compute_fit_score_async and of compute_fit_score when it
\* runs compute_fit_score_async; the heuristic classifies by score alone.
C27_HardGateOnPrimaryPath ==
    (ReturnedWithGap /\ OnPrimaryPath) =>
        last.res.status \notin {"FIT", "BORDERLINE"}

\* the wrapper ran the primary path for a candidate with two of three
\* must-have skills, whom the heuristic rates BORDERLINE
C27_Witness ==
    /\ ReturnedWithGap /\ OnPrimaryPath
    /\ last.op = "compute_fit_score"
    /\ Cardinality(last.rq.must_have \cap LastSkills) = 2
    /\ last.res.status = "NOT_FIT"
    /\ compute_fit_score_fallback(store, last.rq, last.resume).status = "BORDERLINE"

----------------------------------------------------------------------------
(* What the AI service leaves in the cache *)

\* the entry under key k holds what the provider returned for a text of
\* that key: an embedding of the stripped text, or the skills parsed from
\* an extraction
HoldsProviderOutput(k) ==
    \/ \E t \in AITexts :
          /\ Strip(t) # <<>>
          /\ k = ai_embedding(Md5Hex(Strip(t)))
          /\ _deserialize(store[k].data) = ListVal(OpenAIEmbedding(Strip(t)))
    \/ \E t \in AITexts :
          /\ Len(Strip(t)) >= MIN_SKILLS_TEXT
          /\ k = ai_skills(Md5Hex(Strip(t)))
          /\ _deserialize(store[k].data) = ListVal(ParseSkills(OpenAIChat(t)))

\* the last call again, in the state it has left
Again ==
    IF last.op = "get_embedding"
    THEN GetEmbedding(TheCache, depUp, last.text)
    ELSE ExtractSkills(TheCache, depUp, last.text)

----------------------------------------------------------------------------
(* Concurrent get_embedding calls.  The coroutine runs from its start to   *)
(* the awaited provider call without yielding, and from the provider's     *)
(* answer to its return: the cache lookup belongs to the first part, the   *)
(* cache write to the second.                                              *)

\* texts with one stripped content, hence one cache key
SameTexts == {<<"a">>, <<" ", "a">>}

\* what the provider answers for a text: two runs for one input need not
\* give the same vector
OpenAIEmbeddingRuns(text) ==
    {OpenAIEmbedding(text), [OpenAIEmbedding(text) EXCEPT ![5] = 1]}

\* the vectors the provider has produced so far
NothingProvided == [op |-> "provided", vectors |-> {}]

NoCallers ==
    [r \in Requests |-> [pc |-> "idle", text |-> <<>>, hist |-> <<>>]]

\* get_embedding up to `await openai.Embedding.acreate`
GetEmbeddingStart(r, text) ==
    /\ reqs[r].pc = "idle" /\ Len(reqs[r].hist) < MaxOps
    /\ LET cached_embedding ==
               CacheGet(TheCache, ai_embedding(Md5Hex(Strip(text))))
       IN  IF text = <<>> \/ Strip(text) = <<>>
           THEN reqs' = [reqs EXCEPT ![r].hist =
                            Append(@, [text |-> text, ret |-> NoneVal, calls |-> 0])]
           ELSE IF cached_embedding # NoneVal
           THEN reqs' = [reqs EXCEPT ![r].hist =
                            Append(@, [text |-> text, ret |-> cached_embedding,
                                       calls |-> 0])]
           ELSE reqs' = [reqs EXCEPT ![r].pc = "await", ![r].text = text]
    /\ UNCHANGED <<db, connected, store, storeUp, recovered, depUp, sleeps, elapsed, last>>

GetEmbeddingResume_NoStore(r, vector) ==
    /\ reqs[r].pc = "await"
    /\ vector \in OpenAIEmbeddingRuns(Strip(reqs[r].text))
    /\ last' = [last EXCEPT !.vectors = @ \cup {ListVal(vector)}]
    /\ reqs' = [reqs EXCEPT
                  ![r] = [pc |-> "idle", text |-> <<>>,
                          hist |-> Append(reqs[r].hist,
                                      [text |-> reqs[r].text,
                                       ret |-> ListVal(vector), calls |-> 1])]]
    /\ UNCHANGED <<db, connected, store, storeUp, recovered, depUp, sleeps, elapsed>>

\* get_embedding from the provider's answer on: the vector is stored and
\* returned
GetEmbeddingResume(r, vector) ==
    /\ reqs[r].pc = "await"
    /\ vector \in OpenAIEmbeddingRuns(Strip(reqs[r].text))
    /\ store' = CacheSet(TheCache, ai_embedding(Md5Hex(Strip(reqs[r].text))),
                         ListVal(vector), <<EMBEDDING_TTL>>).store
    /\ last' = [last EXCEPT !.vectors = @ \cup {ListVal(vector)}]
    /\ reqs' = [reqs EXCEPT
                  ![r] = [pc |-> "idle", text |-> <<>>,
                          hist |-> Append(reqs[r].hist,
                                      [text |-> reqs[r].text,
                                       ret |-> ListVal(vector), calls |-> 1])]]
    /\ UNCHANGED <<db, connected, storeUp, recovered, depUp, sleeps, elapsed>>

InitEmbed ==
    /\ connected = TRUE
    /\ storeUp = TRUE
    /\ recovered = FALSE
    /\ store = EmptyStore
    /\ depUp = TRUE
    /\ sleeps = 0
    /\ elapsed = 0
    /\ last = NothingProvided
    /\ reqs = NoCallers
    /\ db = NoRows

NextEmbed ==
    \E r \in Requests :
        \/ \E t \in SameTexts : GetEmbeddingStart(r, t)
        \/ \E v \in UNION {OpenAIEmbeddingRuns(Strip(t)) : t \in SameTexts} :
              GetEmbeddingResume(r, v)

SpecEmbed == InitEmbed /\ [][NextEmbed]_vars

\* the completed calls, each with its request and its position
EmbeddingCalls ==
    {c \in Requests \X (1..MaxOps) : c[2] <= Len(reqs[c[1]].hist)}

CallOf(c) == reqs[c[1]].hist[c[2]]

SameKey == ai_embedding(Md5Hex(<<"a">>))

\* C29: when concurrent get_embedding calls on one text have all
\* completed, the provider was invoked at least once and at most once per
\* call, every call returned a vector the provider produced for the text,
\* and the cache holds one entry for the text, equal to one of the vectors
\* returned.
C29_NoSingleFlight ==
    (/\ \A r \in Requests : reqs[r].pc = "idle"
     /\ EmbeddingCalls # {})
    => /\ Cardinality({c \in EmbeddingCalls : CallOf(c).calls = 1})
              \in 1..Cardinality(EmbeddingCalls)
       /\ \A c \in EmbeddingCalls :
             /\ CallOf(c).ret \in last.vectors
             /\ CallOf(c).ret \in
                   {ListVal(v) : v \in OpenAIEmbeddingRuns(Strip(CallOf(c).text))}
       /\ DOMAIN store = {SameKey}
       /\ CacheGet(TheCache, SameKey) \in {CallOf(c).ret : c \in EmbeddingCalls}

\* two calls, one per request, both invoked the provider, so both had
\* missed before either stored; they returned different vectors and the
\* cache holds the one stored last
C29_Witness ==
    /\ \A r \in Requests : reqs[r].pc = "idle" /\ Len(reqs[r].hist) = 1
    /\ \A c \in EmbeddingCalls : CallOf(c).calls = 1
    /\ reqs[1].hist[1].ret # reqs[2].hist[1].ret
    /\ CacheGet(TheCache, SameKey) = reqs[1].hist[1].ret

----------------------------------------------------------------------------
(* The entity id of invalidate_related *)

\* keys of two jobs, of a candidate and of an aggregate
EntityKeyChoices == {job(1), job(2), candidate(1), dashboard_stats}

\* the ids a caller passes: None, 0, the id of a cached entity and another
EntityIds == {NoId, <<0>>, <<1>>, <<2>>}

NextIds ==
    \/ \E k \in EntityKeyChoices : Set(k, IntVal(1), NoTtl)
    \/ \E ty \in {JobType, CandidateType}, id \in EntityIds :
          InvalidateRelated(ty, id)
    \/ StoreOutage
    \/ StoreRecovery
    \/ Return

SpecIds == InitKeys /\ [][NextIds]_vars

\* C30: invalidate_related(t, id) leaves the store it would have left for
\* any other id, None and 0 included; on a reachable cache no entry of any
\* entity of type t is left.
C30_IdNeverNarrows ==
    last.op = "invalidate_related" =>
        /\ \A id \in EntityIds :
              CacheInvalidateRelated(
                  [connected |-> connected, up |-> storeUp, store |-> last.before],
                  last.entity_type, id) = store
        /\ (connected /\ storeUp) =>
              \A k \in DOMAIN store : ~Contains(k, last.entity_type)

\* invalidating job 1 removed the entries of job 1 and of job 2 and left
\* the candidate's
C30_Witness ==
    /\ last.op = "invalidate_related" /\ connected /\ storeUp
    /\ last.entity_type = JobType /\ last.entity_id = <<1>>
    /\ {job(1), job(2), candidate(1)} \subseteq DOMAIN last.before
    /\ DOMAIN store = {candidate(1)}

====
